---------------------------- MODULE Spec2Model ----------------------------
(***************************************************************************)
(* The metrics aggregation core of the APM agent                           *)
(* (src/v1/tv/internal/traceview/metrics.go): the transaction name         *)
(* registry TransMap, the table of measurements, the table of histograms,  *)
(* the processing of an HTTP span and generateMetricsMessage.              *)
(*                                                                         *)
(* Conventions of the model                                                *)
(*  - A Go string is the sequence of its bytes (ASCII codes), so that      *)
(*    concatenation and sort.Strings are computed, not assumed.            *)
(*  - A Go map is a function; the order in which `range` visits a map is   *)
(*    an input of the operator that ranges over it.                        *)
(*  - A 64 bit quantity that does not fit the 32 bit integers of the model *)
(*    checker (a time.Duration, a float64 sum of durations, a histogram    *)
(*    value in microseconds) is a record of two limbs.                     *)
(*  - A goroutine is a thread with a program counter pc[t]. A call and the *)
(*    Lock() it starts with are one step, because a caller that waits for  *)
(*    a lock has no effect before it gets it. The methods of the TransMap  *)
(*    execute their body in one step (Reset: one step per assignment) and  *)
(*    unlock and return in another; the table sections execute their body  *)
(*    and unlock in one step, and processMeasurements takes one step per   *)
(*    recordMeasurement call.                                              *)
(***************************************************************************)
EXTENDS Integers, Sequences, FiniteSets, Bags, TLC

(***************************************************************************)
(* Strings                                                                 *)
(***************************************************************************)
Colon == 58
Amp == 38
Zero == 48

sTransactionName == <<84, 114, 97, 110, 115, 97, 99, 116, 105, 111, 110, 78, 97, 109, 101>>
sHttpMethod == <<72, 116, 116, 112, 77, 101, 116, 104, 111, 100>>
sHttpStatus == <<72, 116, 116, 112, 83, 116, 97, 116, 117, 115>>
sErrors == <<69, 114, 114, 111, 114, 115>>
sTrue == <<116, 114, 117, 101>>
sFalse == <<102, 97, 108, 115, 101>>
sTransactionResponseTime == <<84, 114, 97, 110, 115, 97, 99, 116, 105, 111, 110, 82, 101, 115, 112, 111, 110, 115, 101, 84, 105, 109, 101>>
\* "unknown", "other"
UnknownTransactionName == <<117, 110, 107, 110, 111, 119, 110>>
OtherTransactionName == <<111, 116, 104, 101, 114>>
\* "" (no transaction name)
sEmpty == <<>>
\* "GET", "POST"
sGET == <<71, 69, 84>>
sPOST == <<80, 79, 83, 84>>
\* "t1" .. "t4"
sT1 == <<116, 49>>
sT2 == <<116, 50>>
sT3 == <<116, 51>>
sT4 == <<116, 52>>
\* "name1", "name2", "tag1", "tag2"
sName1 == <<110, 97, 109, 101, 49>>
sName2 == <<110, 97, 109, 101, 50>>
sTag1 == <<116, 97, 103, 49>>
sTag2 == <<116, 97, 103, 50>>

\* strconv.FormatBool
FormatBool(b) == IF b THEN sTrue ELSE sFalse

\* strconv.Itoa, for the non-negative integers the model uses
RECURSIVE Itoa(_)
Itoa(n) == IF n < 10 THEN <<Zero + n>> ELSE Itoa(n \div 10) \o <<Zero + (n % 10)>>

\* a < b for Go strings: bytewise lexicographic order
RECURSIVE StrLess(_, _)
StrLess(a, b) ==
    IF b = <<>> THEN FALSE
    ELSE IF a = <<>> THEN TRUE
    ELSE IF Head(a) # Head(b) THEN Head(a) < Head(b)
    ELSE StrLess(Tail(a), Tail(b))

\* the sequence s with the string x inserted before the first element greater than x
RECURSIVE SortedInsert(_, _)
SortedInsert(s, x) ==
    IF s = <<>> THEN <<x>>
    ELSE IF StrLess(x, Head(s)) THEN <<x>> \o s
    ELSE <<Head(s)>> \o SortedInsert(Tail(s), x)

\* sort.Strings: the strings of s in increasing order
RECURSIVE SortStrings(_)
SortStrings(s) ==
    IF s = <<>> THEN <<>> ELSE SortedInsert(SortStrings(Tail(s)), Head(s))

\* the orders in which `range` may visit the keys of the map m
RangeOrders(m) ==
    {o \in [1..Cardinality(DOMAIN m) -> DOMAIN m] :
        \A i, j \in DOMAIN o : i # j => o[i] # o[j]}

(***************************************************************************)
(* 64 bit quantities                                                       *)
(***************************************************************************)
\* time.Microsecond and time.Second, in nanoseconds
Microsecond == 1000
Second == 1000 * 1000 * Microsecond

\* a time.Duration (and a float64 sum of durations) of sec seconds and nsec nanoseconds
Dur(s, n) == [sec |-> s, nsec |-> n]
WideZero == Dur(0, 0)
WideAdd(a, b) ==
    [sec  |-> a.sec + b.sec + ((a.nsec + b.nsec) \div Second),
     nsec |-> (a.nsec + b.nsec) % Second]

\* int64(duration / time.Microsecond): whole microseconds, as seconds and microseconds
ToMicroseconds(d) == [sec |-> d.sec, usec |-> d.nsec \div Microsecond]


\* a > b for histogram values in seconds and microseconds
MicrosGreater(a, b) == a.sec > b.sec \/ (a.sec = b.sec /\ a.usec > b.usec)

(***************************************************************************)
(* Measurements                                                            *)
(***************************************************************************)
\* metricsTagNameLenghtMax, metricsTagValueLenghtMax
metricsTagNameLenghtMax == 64
metricsTagValueLenghtMax == 255

\* the strings k+":"+v appended to tagsSorted while `range` visits tags in the order o
TagStrings(tags, o) == [i \in DOMAIN o |-> o[i] \o <<Colon>> \o tags[o[i]]]

\* id += t + "&" for every t of the sequence ts
RECURSIVE AppendTags(_, _)
AppendTags(id, ts) ==
    IF ts = <<>> THEN id ELSE AppendTags(id \o Head(ts) \o <<Amp>>, Tail(ts))

\* the ID assembled without sorting the tags
MeasurementIDUnsorted(nm, tags, o, reportValue) ==
    AppendTags(nm \o <<Amp>> \o FormatBool(reportValue) \o <<Amp>>, TagStrings(tags, o))

\* the ID recordMeasurement assembles for a measurement: name, reportValue and the
\* sorted tags; o is the order in which `range` visits the map tags
MeasurementID(nm, tags, o, reportValue) ==
    AppendTags(nm \o <<Amp>> \o FormatBool(reportValue) \o <<Amp>>,
               SortStrings(TagStrings(tags, o)))

\* recordMeasurement(me, name, &tags, value, count, reportValue): the map me.measurements
\* it leaves; o is the order in which `range` visits the map tags
recordMeasurement(me, nm, tags, o, value, count, reportValue) ==
    LET id == MeasurementID(nm, tags, o, reportValue)
        m  == IF id \in DOMAIN me
              THEN me[id]
              ELSE [Name |-> nm, Tags |-> tags, Count |-> 0, Sum |-> WideZero,
                    ReportSum |-> reportValue]
        m2 == [m EXCEPT !.Count = @ + count, !.Sum = WideAdd(@, value)]
    IN  [i \in DOMAIN me \cup {id} |-> IF i = id THEN m2 ELSE me[i]]

\* make(map[string]*Measurement), make(map[string]*histogram)
EmptyMap == <<>>

\* a truncation that keeps every byte of x
TruncateNever(x, n) == x

\* the first n bytes of the string x
Truncate(x, n) == IF Len(x) > n THEN SubSeq(x, 1, n) ELSE x

\* the key/value pairs appended to the "tags" object of a measurement or histogram
TagsToBSON(tags) ==
    {<<Truncate(k, metricsTagNameLenghtMax), Truncate(tags[k], metricsTagValueLenghtMax)>> :
        k \in DOMAIN tags}

\* addMeasurementToBSON: the array element appended for the measurement m
\* (sum holds the sum if it is reported, and nothing otherwise)
addMeasurementToBSON(m) ==
    [name  |-> m.Name,
     count |-> m.Count,
     sum   |-> IF m.ReportSum THEN <<m.Sum>> ELSE <<>>,
     tags  |-> TagsToBSON(m.Tags)]

(***************************************************************************)
(* Histograms                                                              *)
(***************************************************************************)
\* metricsHistPrecisionDefault
metricsHistPrecisionDefault == 2

\* hdrhist.Config.HighestTrackable: 3600000000 microseconds
HighestTrackable == [sec |-> 3600, usec |-> 0]

\* hdrhist.Hist.Record(v) panics for a value above the trackable ceiling
RecordPanics(v) == MicrosGreater(v, HighestTrackable)

\* the histogram Record(v) leaves when it does not panic: one more recorded value
Record(h, v) == h + 1

\* Record(int64(duration / time.Microsecond)) does not panic
InRangeDuration(duration) == ~RecordPanics(ToMicroseconds(duration))


\* a recordHistogram that records the values above the ceiling as well
recordHistogramCountsAll(hi, nm, duration) ==
    LET tags == IF nm # sEmpty THEN (sTransactionName :> nm) ELSE EmptyMap
        h    == IF nm \in DOMAIN hi THEN hi[nm] ELSE [hist |-> 0, tags |-> tags]
        v    == ToMicroseconds(duration)
    IN  [i \in DOMAIN hi \cup {nm} |->
            IF i # nm THEN hi[i] ELSE [h EXCEPT !.hist = Record(@, v)]]

\* a recordHistogram whose failed Record leaves a table with no other entry
recordHistogramDropsOthers(hi, nm, duration) ==
    LET tags == IF nm # sEmpty THEN (sTransactionName :> nm) ELSE EmptyMap
        h    == IF nm \in DOMAIN hi THEN hi[nm] ELSE [hist |-> 0, tags |-> tags]
        v    == ToMicroseconds(duration)
    IN  IF RecordPanics(v) THEN (nm :> h)
        ELSE [i \in DOMAIN hi \cup {nm} |->
                 IF i # nm THEN hi[i] ELSE [h EXCEPT !.hist = Record(@, v)]]

\* recordHistogram(hi, name, duration): the map hi.histograms it leaves. The entry
\* is created before the value is recorded, so it stays when Record panics.
recordHistogram(hi, nm, duration) ==
    LET tags == IF nm # sEmpty THEN (sTransactionName :> nm) ELSE EmptyMap
        h    == IF nm \in DOMAIN hi THEN hi[nm] ELSE [hist |-> 0, tags |-> tags]
        v    == ToMicroseconds(duration)
    IN  [i \in DOMAIN hi \cup {nm} |->
            IF i # nm THEN hi[i]
            ELSE IF RecordPanics(v) THEN h
            ELSE [h EXCEPT !.hist = Record(@, v)]]

\* hdrhist.EncodeCompressed(h.hist): the encoding stands for the values recorded
EncodeCompressed(h) == h

\* addHistogramToBSON: the array element appended for the histogram h
addHistogramToBSON(h) ==
    [name  |-> sTransactionResponseTime,
     value |-> EncodeCompressed(h.hist),
     tags  |-> TagsToBSON(h.tags)]

\* the elements appended to the "measurements" array while `range` visits the map
\* tab, as a bag
MeasurementsArray(tab) ==
    LET docs == {addMeasurementToBSON(tab[i]) : i \in DOMAIN tab}
    IN  [d \in docs |-> Cardinality({i \in DOMAIN tab : addMeasurementToBSON(tab[i]) = d})]

\* the elements appended to the "histograms" array while `range` visits the map
\* tab, as a bag
HistogramsArray(tab) ==
    LET docs == {addHistogramToBSON(tab[i]) : i \in DOMAIN tab}
    IN  [d \in docs |-> Cardinality({i \in DOMAIN tab : addHistogramToBSON(tab[i]) = d})]

\* keys that count the histograms that fail to encode as well
RECURSIVE HistogramKeysCountAll(_, _, _)
HistogramKeysCountAll(o, failed, index) ==
    IF o = <<>> THEN <<>>
    ELSE IF Head(o) \in failed THEN HistogramKeysCountAll(Tail(o), failed, index + 1)
    ELSE <<Itoa(index)>> \o HistogramKeysCountAll(Tail(o), failed, index + 1)

\* the keys strconv.Itoa(*index) of the elements addHistogramToBSON appends while
\* `range` visits the histograms in the order o, *index being index at first:
\* hdrhist.EncodeCompressed returns an error for the histograms in failed, and
\* addHistogramToBSON returns for them before it appends anything
RECURSIVE HistogramKeys(_, _, _)
HistogramKeys(o, failed, index) ==
    IF o = <<>> THEN <<>>
    ELSE IF Head(o) \in failed THEN HistogramKeys(Tail(o), failed, index)
    ELSE <<Itoa(index)>> \o HistogramKeys(Tail(o), failed, index + 1)

(***************************************************************************)
(* Bounds and input sets                                                   *)
(***************************************************************************)
\* capacities passed to NewTransMap and SetCap are 0 .. MaxCap
MaxCap == 3
Caps == 0..MaxCap

\* transaction names passed to IsWithinLimit
TxnNames == {sT1, sT2, sT3, sT4}

\* goroutines
Threads == {"w1", "w2", "p"}
NoThread == "none"

\* the thread that processes the spans, the thread of the periodic tasks, and the
\* threads that call the functions of the table of measurements directly
Writers == {"w1"}
Periodic == {"p"}
Recorders == {"w1", "w2"}

\* at most MaxSpans spans are processed
MaxSpans == 1

\* at most MaxEvents events are reported to the queue statistics, and the queue
\* lengths passed to setQueueLargest are 1 .. MaxQueue
MaxEvents == 4
MaxQueue == 2

\* the number of successive drains of a table that the history remembers
MaxDrains == 3

\* at most MaxSamples direct calls of recordHistogram are made
MaxSamples == 3

\* at most MaxFlushSpans spans are processed while messages are generated
MaxFlushSpans == 2

\* at most MaxCalls direct calls of recordMeasurement and processMeasurements are made
MaxCalls == 2

\* metricsTransactionsMaxDefault
metricsTransactionsMaxDefault == 200

\* the capacities the settings pass to SetCap of mTransMap
SettingsCaps == {0}

\* the spans handed to process(): a transaction name (t1, the reserved name
\* "unknown", or none), a duration (999 ns above the trackable ceiling of one
\* hour, which is the ceiling in whole microseconds, or 1 us above the ceiling)
\* and an HTTP outcome
SpanNames == {sT1, UnknownTransactionName, sEmpty}
Durations == {Dur(3600, 999), Dur(3600, 1000)}
Outcomes ==
    {[Status |-> 200, Method |-> sGET, HasError |-> FALSE],
     [Status |-> 500, Method |-> sPOST, HasError |-> TRUE]}
HTTPSpanMessage(tr, d, o) ==
    [Transaction |-> tr, Duration |-> d, Status |-> o.Status, Method |-> o.Method,
     HasError |-> o.HasError]
SpanInputs == {HTTPSpanMessage(tr, d, o) : tr \in SpanNames, d \in Durations, o \in Outcomes}
NoSpan == HTTPSpanMessage(sEmpty, WideZero, [Status |-> 0, Method |-> sEmpty, HasError |-> FALSE])

\* the arguments of the direct calls of recordMeasurement: metric names, tag maps
\* (those of TestRecordMeasurement among them) and reportValue; the values are Durations
MetricNames == {sName1, sName2}
TagMaps ==
    {(sT1 :> sTag1) @@ (sT2 :> sTag2),
     (sT1 :> sTag2) @@ (sT2 :> sTag2),
     (sT1 :> sTag1)}

\* the arguments of the direct calls of processMeasurements: the spans with a
\* transaction name, and the names process() passes for them
\* the spans processed while messages are generated: successful requests of one
\* transaction, with a duration on either side of the histogram's ceiling
FlushSpans == {s \in SpanInputs : s.Transaction = sT1 /\ ~s.HasError}
\* the names of the direct calls of recordHistogram ("" and one name, as in
\* TestRecordHistogram); the durations are Durations
HistogramNames == {sEmpty, sT1}
NamedSpans == {s \in SpanInputs : s.Transaction = sT1}
TransactionNameArgs == {sT1, OtherTransactionName}

\* eventQueueStats{}
ZeroStats ==
    [numSent |-> 0, numOverflowed |-> 0, numFailed |-> 0, totalEvents |-> 0, queueLargest |-> 0]

\* the message generateMetricsMessage starts with (the host and runtime values it
\* holds are not part of the model); order lists the parts of the message in the
\* order in which they are appended to the buffer, keys the keys of the elements
\* of the array of the histograms in the order in which they are appended, and
\* logged the histograms for which "Failed to encode histogram" is logged;
\* MACAddresses is the array appendMACAddresses appends, a sequence of pairs of a
\* key and a value
EmptyMessage ==
    [queueStats |-> ZeroStats, measurements |-> EmptyBag, histograms |-> EmptyBag,
     TransactionNameOverflow |-> FALSE, order |-> <<>>, keys |-> <<>>, logged |-> {},
     MACAddresses |-> <<>>]

(***************************************************************************)
(* State                                                                   *)
(***************************************************************************)
VARIABLES
    transactionNames,   \* TransMap.transactionNames: the set of its keys
    currCap,            \* TransMap.currCap
    nextCap,            \* TransMap.nextCap
    overflow,           \* TransMap.overflow
    mutex,              \* TransMap.mutex: the thread that holds it, or NoThread
    pc,                 \* pc[t]: where thread t stands
    op,                 \* op[t]: the outermost function thread t is executing
    name,               \* name[t]: the argument of the IsWithinLimit call of t
    cap,                \* cap[t]: the argument of the SetCap call of t
    ret,                \* ret[t]: the value returned by the last IsWithinLimit or Overflow call of t
    measurements,       \* metricsHTTPMeasurements.measurements: id -> Measurement
    measLock,           \* metricsHTTPMeasurements.lock: the thread that holds it, or NoThread
    histograms,         \* metricsHTTPHistograms.histograms: name -> histogram
    histLock,           \* metricsHTTPHistograms.lock: the thread that holds it, or NoThread
    span,               \* span[t]: the HTTPSpanMessage thread t is processing
    txn,                \* txn[t]: the transactionName argument of the processMeasurements call of t
    msg,                \* msg[t]: the metrics message generateMetricsMessage is building in t
    stagedCap,          \* history: the argument of the most recent SetCap, or the capacity at construction
    calls,              \* history: the number of IsWithinLimit calls made for span[t]
    before,             \* history: the measurements when processMeasurements of t locked them
    nSpans,             \* history: the number of calls started by the threads that record
    audit,              \* history: the history variables that are kept
    recorded,           \* history: the bag of the observations passed to recordMeasurement
    sampled,            \* history: the bag of the calls of recordHistogram
    emitted,            \* history: the arrays of the messages generated so far, summed
    drains,             \* history: per table, the sizes of the arrays its drains have
                        \* appended since the last recording in it
    queueStats,         \* the eventQueueStats passed to generateMetricsMessage
    copy,               \* copy[t]: the local c of copyAndReset of thread t, the copy it builds
    newVal,             \* newVal[t]: the local newVal of setQueueLargest of thread t
    currVal,            \* currVal[t]: the local currVal of setQueueLargest of thread t
    incremented,        \* history: the number of increments of totalEvents
    returned,           \* history: the sum of the totalEvents that the copyAndReset calls returned
    quiet,              \* history: quiet[t]: no counter was written since copyAndReset of t was called
    held,               \* history: held[t]: the values numSent and totalEvents had together at
                        \* the instants since copyAndReset of t was called, its own swaps undone
    highest,            \* history: the largest of the values passed to setQueueLargest since
                        \* queueLargest was last swapped, or -1 if a call was in progress then
    aggregator,         \* the metricsAggregator: its channels records, raw and exit, its
                        \* transNames and its metrics
    processMetrics      \* the goroutine that executes ProcessMetrics: where it stands, and
                        \* (history) the FlushBSON call whose request it is serving

tmVars == <<transactionNames, currCap, nextCap, overflow, mutex>>
threadVars == <<pc, op, name, cap, ret>>
tableVars == <<measurements, measLock, histograms, histLock>>
procVars == <<span, txn, calls, before>>
ghostVars == <<audit, recorded, sampled, emitted, drains>>
aggVars == <<aggregator, processMetrics>>
queueVars == <<queueStats, copy, newVal, currVal, incremented, returned, quiet, held, highest>>
mainVars == <<tableVars, procVars, msg, nSpans, ghostVars, aggVars, queueVars>>
vars == <<tmVars, threadVars, stagedCap, mainVars>>

\* thread t goes to label l
Goto(t, l) == pc' = [pc EXCEPT ![t] = l]

\* a step inside the TransMap: thread t goes to label l, and nothing outside the TransMap changes
TMGoto(t, l) == Goto(t, l) /\ UNCHANGED mainVars

(***************************************************************************)
(* TransMap                                                                *)
(***************************************************************************)
\* NewTransMap(cap)
NewTransMap(c) ==
    /\ transactionNames = {}
    /\ currCap = c
    /\ nextCap = c
    /\ overflow = FALSE
    /\ mutex = NoThread

\* t.mutex.Lock() by thread t: blocks while another thread holds the mutex
MutexLock(t) == mutex = NoThread /\ mutex' = t

\* the deferred t.mutex.Unlock()
MutexUnlock(t) == mutex' = NoThread

\* where a TransMap method returns to
ReturnTo(t, l) ==
    /\ MutexUnlock(t)
    /\ TMGoto(t, l)
    /\ name' = [name EXCEPT ![t] = sEmpty]
    /\ cap' = [cap EXCEPT ![t] = 0]

----------------------------------------------------------------------------
\* IsWithinLimit with <= for <
IsWithinLimitOffByOne(names, c, ovf, n) ==
    IF n \notin names
    THEN IF Cardinality(names) <= c
         THEN [names |-> names \cup {n}, overflow |-> ovf, ret |-> TRUE]
         ELSE [names |-> names, overflow |-> TRUE, ret |-> FALSE]
    ELSE [names |-> names, overflow |-> ovf, ret |-> TRUE]

\* IsWithinLimit that recomputes the overflow flag on every call
IsWithinLimitRecomputes(names, c, ovf, n) ==
    IF n \notin names
    THEN IF Cardinality(names) < c
         THEN [names |-> names \cup {n}, overflow |-> FALSE, ret |-> TRUE]
         ELSE [names |-> names, overflow |-> TRUE, ret |-> FALSE]
    ELSE [names |-> names, overflow |-> FALSE, ret |-> TRUE]

\* IsWithinLimit that registers the name it rejects
IsWithinLimitRegistersRejected(names, c, ovf, n) ==
    IF n \notin names
    THEN IF Cardinality(names) < c
         THEN [names |-> names \cup {n}, overflow |-> ovf, ret |-> TRUE]
         ELSE [names |-> names \cup {n}, overflow |-> TRUE, ret |-> FALSE]
    ELSE [names |-> names, overflow |-> ovf, ret |-> TRUE]

\* the body of IsWithinLimit(n) on a map with keys names, capacity c and overflow flag ovf:
\* the keys and the flag it leaves, and the value it returns
IsWithinLimit(names, c, ovf, n) ==
    IF n \notin names
    THEN IF Cardinality(names) < c
         THEN [names |-> names \cup {n}, overflow |-> ovf, ret |-> TRUE]
         ELSE [names |-> names, overflow |-> TRUE, ret |-> FALSE]
    ELSE [names |-> names, overflow |-> ovf, ret |-> TRUE]

\* thread t, holding the mutex, executes the body of IsWithinLimit(name[t])
IsWithinLimitBody(t) ==
    /\ pc[t] = "iwl_body"
    /\ LET r == IsWithinLimit(transactionNames, currCap, overflow, name[t]) IN
        /\ transactionNames' = r.names
        /\ overflow' = r.overflow
        /\ ret' = [ret EXCEPT ![t] = r.ret]
    /\ TMGoto(t, "iwl_ret")
    /\ UNCHANGED <<currCap, nextCap, mutex, op, name, cap, stagedCap>>

\* IsWithinLimit unlocks the mutex and returns ret[t]
IsWithinLimitReturn(t) ==
    /\ pc[t] = "iwl_ret"
    /\ ReturnTo(t, IF op[t] = "process" THEN "p_branch" ELSE "idle")
    /\ op' = [op EXCEPT ![t] = IF op[t] = "process" THEN "process" ELSE "idle"]
    /\ ret' = [ret EXCEPT ![t] = IF op[t] = "process" THEN ret[t] ELSE FALSE]
    /\ UNCHANGED <<transactionNames, currCap, nextCap, overflow, stagedCap>>

----------------------------------------------------------------------------
\* SetCap that makes the capacity effective at once
SetCapImmediate(c) == [currCap |-> c, nextCap |-> c]

\* the body of SetCap(c): the capacities it leaves
SetCap(c) == [currCap |-> currCap, nextCap |-> c]

\* thread t, holding the mutex, executes the body of SetCap(cap[t])
SetCapBody(t) ==
    /\ pc[t] = "setcap_body"
    /\ currCap' = SetCap(cap[t]).currCap
    /\ nextCap' = SetCap(cap[t]).nextCap
    /\ stagedCap' = cap[t]
    /\ TMGoto(t, "setcap_ret")
    /\ UNCHANGED <<transactionNames, overflow, mutex, op, name, cap, ret>>

SetCapReturn(t) ==
    /\ pc[t] = "setcap_ret"
    /\ ReturnTo(t, "idle")
    /\ op' = [op EXCEPT ![t] = "idle"]
    /\ UNCHANGED <<transactionNames, currCap, nextCap, overflow, ret, stagedCap>>

----------------------------------------------------------------------------
\* Reset that does not take the mutex
ResetLockMissing(t) == UNCHANGED mutex

\* t.mutex.Lock() of Reset
ResetLock(t) == MutexLock(t)

\* t.transactionNames = make(map[string]struct{})
ResetNames(t) ==
    /\ pc[t] = "reset_names"
    /\ transactionNames' = {}
    /\ TMGoto(t, "reset_cap")
    /\ UNCHANGED <<currCap, nextCap, overflow, mutex, op, name, cap, ret, stagedCap>>

\* t.currCap = t.nextCap
ResetCap(t) ==
    /\ pc[t] = "reset_cap"
    /\ currCap' = nextCap
    /\ TMGoto(t, "reset_ovf")
    /\ UNCHANGED <<transactionNames, nextCap, overflow, mutex, op, name, cap, ret, stagedCap>>

\* t.overflow = false
\* a Reset that leaves the overflow flag as it is
ResetOverflowKeepsFlag(t) ==
    /\ pc[t] = "reset_ovf"
    /\ TMGoto(t, "reset_ret")
    /\ UNCHANGED <<transactionNames, currCap, nextCap, overflow, mutex, op, name, cap, ret,
                   stagedCap>>

ResetOverflow(t) ==
    /\ pc[t] = "reset_ovf"
    /\ overflow' = FALSE
    /\ TMGoto(t, "reset_ret")
    /\ UNCHANGED <<transactionNames, currCap, nextCap, mutex, op, name, cap, ret, stagedCap>>

ResetReturn(t) ==
    /\ pc[t] = "reset_ret"
    /\ ReturnTo(t, IF op[t] = "flush" THEN "gm_done" ELSE "idle")
    /\ op' = [op EXCEPT ![t] = IF op[t] = "flush" THEN "flush" ELSE "idle"]
    /\ UNCHANGED <<transactionNames, currCap, nextCap, overflow, ret, stagedCap>>

----------------------------------------------------------------------------
\* thread t, holding the mutex, executes the body of Overflow()
OverflowBody(t) ==
    /\ pc[t] = "ovf_body"
    /\ ret' = [ret EXCEPT ![t] = overflow]
    /\ TMGoto(t, "ovf_ret")
    /\ UNCHANGED <<tmVars, op, name, cap, stagedCap>>

OverflowReturn(t) ==
    /\ pc[t] = "ovf_ret"
    /\ ReturnTo(t, IF op[t] = "flush" THEN "gm_overflow_if" ELSE "idle")
    /\ op' = [op EXCEPT ![t] = IF op[t] = "flush" THEN "flush" ELSE "idle"]
    /\ ret' = [ret EXCEPT ![t] = IF op[t] = "flush" THEN ret[t] ELSE FALSE]
    /\ UNCHANGED <<transactionNames, currCap, nextCap, overflow, stagedCap>>

----------------------------------------------------------------------------
\* Calls of the methods of a TransMap by a thread that is executing nothing else.
\* The call and the Lock() it starts with are one step: a caller that waits for
\* the mutex has no effect before it gets it.
CallIsWithinLimit(t, n) ==
    /\ pc[t] = "idle"
    /\ MutexLock(t)
    /\ TMGoto(t, "iwl_body")
    /\ op' = [op EXCEPT ![t] = "IsWithinLimit"]
    /\ name' = [name EXCEPT ![t] = n]
    /\ UNCHANGED <<transactionNames, currCap, nextCap, overflow, cap, ret, stagedCap>>

CallSetCap(t, c) ==
    /\ pc[t] = "idle"
    /\ MutexLock(t)
    /\ TMGoto(t, "setcap_body")
    /\ op' = [op EXCEPT ![t] = "SetCap"]
    /\ cap' = [cap EXCEPT ![t] = c]
    /\ UNCHANGED <<transactionNames, currCap, nextCap, overflow, name, ret, stagedCap>>

CallReset(t) ==
    /\ pc[t] = "idle"
    /\ ResetLock(t)
    /\ TMGoto(t, "reset_names")
    /\ op' = [op EXCEPT ![t] = "Reset"]
    /\ UNCHANGED <<transactionNames, currCap, nextCap, overflow, name, cap, ret, stagedCap>>

CallOverflow(t) ==
    /\ pc[t] = "idle"
    /\ MutexLock(t)
    /\ TMGoto(t, "ovf_body")
    /\ op' = [op EXCEPT ![t] = "Overflow"]
    /\ UNCHANGED <<transactionNames, currCap, nextCap, overflow, name, cap, ret, stagedCap>>

\* history: the drains of the table tab forgotten, as it is recorded in
Recording(tab) == IF "drains" \in audit THEN [drains EXCEPT ![tab] = <<>>] ELSE drains

\* history: one more drain of the table tab, which appended n elements (the drains
\* after the first MaxDrains are not remembered)
Drained(tab, n) ==
    IF "drains" \in audit /\ Len(drains[tab]) < MaxDrains
    THEN [drains EXCEPT ![tab] = Append(@, n)]
    ELSE drains

\* history: one more call recordHistogram(metricsHTTPHistograms, nm, duration)
Sampled(nm, duration) ==
    IF "sampled" \in audit
    THEN sampled (+) SetToBag({[Name |-> nm, Duration |-> duration]})
    ELSE sampled

\* history: the arrays of the message m added to those of the earlier messages
Emitted(m) ==
    IF "emitted" \in audit
    THEN [measurements |-> emitted.measurements (+) m.measurements,
          histograms   |-> emitted.histograms (+) m.histograms]
    ELSE emitted

(***************************************************************************)
(* HTTPSpanMessage.process                                                 *)
(***************************************************************************)
\* metricsHTTPHistograms.lock / metricsHTTPMeasurements.lock
HistLock(t) == histLock = NoThread /\ histLock' = t

\* a Lock() of the measurements that does not wait for the thread that holds them
MeasLockNoWait(t) == measLock' = t

MeasLock(t) == measLock = NoThread /\ measLock' = t

\* a process() that takes the missing name, not the reserved one, for unknown
IsUnknownWhenEmpty(s) == s.Transaction = sEmpty

\* !(s.Transaction != UnknownTransactionName)
IsUnknown(s) == s.Transaction = UnknownTransactionName

\* a thread starts process() for the span s: recordHistogram(metricsHTTPHistograms, "", ...)
\* locks the histograms
CallProcess(t, s) ==
    /\ pc[t] = "idle"
    /\ nSpans' = nSpans + 1
    /\ HistLock(t)
    /\ Goto(t, "h0_body")
    /\ op' = [op EXCEPT ![t] = "process"]
    /\ span' = [span EXCEPT ![t] = s]
    /\ UNCHANGED <<tmVars, name, cap, ret, stagedCap, measurements, measLock, histograms,
                   txn, calls, before, msg>>
    /\ UNCHANGED <<ghostVars, aggVars, queueVars>>

\* one of the at most MaxSpans spans of a behaviour is processed
StartProcess(t, s) == nSpans < MaxSpans /\ CallProcess(t, s)

\* a recordHistogram whose deferred function does not unlock the histograms when
\* Record panics
RecordHistogramBodyKeepsLock(t) ==
    /\ pc[t] \in {"h0_body", "h1_body"}
    /\ histograms' = recordHistogram(histograms,
                                     IF pc[t] = "h0_body" THEN sEmpty ELSE span[t].Transaction,
                                     span[t].Duration)
    /\ histLock' = IF InRangeDuration(span[t].Duration) THEN NoThread ELSE histLock
    /\ Goto(t, IF pc[t] = "h0_body" THEN "p_admit" ELSE "p_meas")
    /\ sampled' = Sampled(IF pc[t] = "h0_body" THEN sEmpty ELSE span[t].Transaction,
                          span[t].Duration)
    /\ drains' = Recording("histograms")
    /\ UNCHANGED <<tmVars, op, name, cap, ret, stagedCap, measurements, measLock,
                   procVars, msg, nSpans>>
    /\ UNCHANGED <<aggVars, audit, recorded, emitted, queueVars>>


\* the body of recordHistogram, for the overall histogram "" (h0) and for the
\* histogram of the transaction (h1), and its deferred function, which unlocks the
\* histograms and recovers from the panic of Record
RecordHistogramBody(t) ==
    /\ pc[t] \in {"h0_body", "h1_body"}
    /\ histograms' = recordHistogram(histograms,
                                     IF pc[t] = "h0_body" THEN sEmpty ELSE span[t].Transaction,
                                     span[t].Duration)
    /\ histLock' = NoThread
    /\ Goto(t, IF pc[t] = "h0_body" THEN "p_admit" ELSE "p_meas")
    /\ sampled' = Sampled(IF pc[t] = "h0_body" THEN sEmpty ELSE span[t].Transaction,
                          span[t].Duration)
    /\ drains' = Recording("histograms")
    /\ UNCHANGED <<tmVars, op, name, cap, ret, stagedCap, measurements, measLock,
                   procVars, msg, nSpans>>
    /\ UNCHANGED <<aggVars, audit, recorded, emitted, queueVars>>

\* processMeasurements(transactionName) locks the measurements
CallProcessMeasurements(t, transactionName) ==
    /\ MeasLock(t)
    /\ txn' = [txn EXCEPT ![t] = transactionName]
    /\ before' = [before EXCEPT ![t] = measurements]
    /\ Goto(t, "pm_primary")
    /\ UNCHANGED <<tmVars, op, name, cap, ret, stagedCap, measurements, histograms, histLock,
                   span, calls, msg, nSpans>>
    /\ UNCHANGED <<ghostVars, aggVars, queueVars>>

\* s.Transaction != UnknownTransactionName: mTransMap.IsWithinLimit(s.Transaction) is called
ProcessAdmit(t) ==
    /\ pc[t] = "p_admit"
    /\ ~IsUnknown(span[t])
    /\ MutexLock(t)
    /\ Goto(t, "iwl_body")
    /\ name' = [name EXCEPT ![t] = span[t].Transaction]
    /\ calls' = [calls EXCEPT ![t] = @ + 1]
    /\ UNCHANGED <<transactionNames, currCap, nextCap, overflow, op, cap, ret, stagedCap,
                   tableVars, span, txn, before, msg, nSpans>>
    /\ UNCHANGED <<ghostVars, aggVars, queueVars>>

\* else: s.processMeasurements(UnknownTransactionName)
ProcessUnknown(t) ==
    /\ pc[t] = "p_admit"
    /\ IsUnknown(span[t])
    /\ CallProcessMeasurements(t, UnknownTransactionName)

\* IsWithinLimit returned true: recordHistogram(metricsHTTPHistograms, s.Transaction, ...)
ProcessNamed(t) ==
    /\ pc[t] = "p_branch"
    /\ ret[t]
    /\ HistLock(t)
    /\ Goto(t, "h1_body")
    /\ UNCHANGED <<tmVars, op, name, cap, ret, stagedCap, measurements, measLock, histograms,
                   procVars, msg, nSpans>>
    /\ UNCHANGED <<ghostVars, aggVars, queueVars>>

\* ... then s.processMeasurements(s.Transaction)
ProcessNamedMeasurements(t) ==
    /\ pc[t] = "p_meas"
    /\ CallProcessMeasurements(t, span[t].Transaction)

\* a process() that returns without recording the measurements of a rejected span
ProcessOtherDropped(t) ==
    /\ pc[t] = "p_branch"
    /\ ~ret[t]
    /\ Goto(t, "idle")
    /\ op' = [op EXCEPT ![t] = "idle"]
    /\ span' = [span EXCEPT ![t] = NoSpan]
    /\ calls' = [calls EXCEPT ![t] = 0]
    /\ UNCHANGED <<tmVars, name, cap, ret, stagedCap, tableVars, txn, before, msg, nSpans>>
    /\ UNCHANGED <<ghostVars, aggVars, queueVars>>


\* IsWithinLimit returned false: s.processMeasurements(OtherTransactionName)
ProcessOther(t) ==
    /\ pc[t] = "p_branch"
    /\ ~ret[t]
    /\ CallProcessMeasurements(t, OtherTransactionName)

----------------------------------------------------------------------------
\* a processMeasurements that records the Errors series of every span
AfterStatusAlwaysErrors(s) == "pm_error"

\* if s.HasError { ... }
AfterStatus(s) == IF s.HasError THEN "pm_error" ELSE "pm_ret"

\* the tags of the four recordMeasurement calls of processMeasurements
primaryTags(transactionName) == (sTransactionName :> transactionName)
withMethodTags(transactionName, s) ==
    (sHttpMethod :> s.Method) @@ primaryTags(transactionName)
withStatusTags(transactionName, s) ==
    (sHttpStatus :> Itoa(s.Status)) @@ primaryTags(transactionName)
withErrorTags(transactionName) ==
    (sErrors :> sTrue) @@ primaryTags(transactionName)

\* the history of the observations after recordMeasurement(me, nm, &tags, value, count,
\* reportValue) is called
Observed(nm, tags, value, count, reportValue) ==
    IF "recorded" \in audit
    THEN recorded (+) SetToBag({[Name |-> nm, Tags |-> tags, ReportSum |-> reportValue,
                                 Value |-> value, Count |-> count]})
    ELSE recorded

\* one recordMeasurement(metricsHTTPMeasurements, name, &tags, duration, 1, true) of
\* processMeasurements, at label l, leading to label next
RecordSeries(t, l, tags, next) ==
    /\ pc[t] = l
    /\ \E o \in RangeOrders(tags) :
          measurements' = recordMeasurement(measurements, sTransactionResponseTime, tags, o,
                                            span[t].Duration, 1, TRUE)
    /\ recorded' = Observed(sTransactionResponseTime, tags, span[t].Duration, 1, TRUE)
    /\ Goto(t, next)
    /\ drains' = Recording("measurements")
    /\ UNCHANGED <<tmVars, op, name, cap, ret, stagedCap, measLock, histograms, histLock,
                   procVars, msg, nSpans>>
    /\ UNCHANGED <<aggVars, audit, sampled, emitted, queueVars>>

PmPrimary(t) == RecordSeries(t, "pm_primary", primaryTags(txn[t]), "pm_method")
PmMethod(t) == RecordSeries(t, "pm_method", withMethodTags(txn[t], span[t]), "pm_status")
PmStatus(t) == RecordSeries(t, "pm_status", withStatusTags(txn[t], span[t]), AfterStatus(span[t]))
PmError(t) == RecordSeries(t, "pm_error", withErrorTags(txn[t]), "pm_ret")

\* the deferred unlock of processMeasurements; process() returns
PmReturn(t) ==
    /\ pc[t] = "pm_ret"
    /\ measLock' = NoThread
    /\ Goto(t, "idle")
    /\ op' = [op EXCEPT ![t] = "idle"]
    /\ span' = [span EXCEPT ![t] = NoSpan]
    /\ txn' = [txn EXCEPT ![t] = sEmpty]
    /\ ret' = [ret EXCEPT ![t] = FALSE]
    /\ calls' = [calls EXCEPT ![t] = 0]
    /\ before' = [before EXCEPT ![t] = EmptyMap]
    /\ UNCHANGED <<tmVars, name, cap, stagedCap, measurements, histograms, histLock,
                   msg, nSpans>>
    /\ UNCHANGED <<ghostVars, aggVars, queueVars>>

(***************************************************************************)
(* eventQueueStats                                                         *)
(***************************************************************************)
\* the steps of the methods of eventQueueStats leave everything else alone
QGoto(t, l) ==
    /\ Goto(t, l)
    /\ UNCHANGED <<tmVars, name, cap, ret, stagedCap, tableVars, procVars, nSpans, ghostVars, aggVars>>

\* atomic.AddInt64(&s.field, delta): the counters it leaves
AddInt64(s, field, delta) == [s EXCEPT ![field] = @ + delta]

\* atomic.LoadInt64(&s.field)
LoadInt64(s, field) == s[field]

\* a compare-and-swap that stores the new value whatever the field holds
CompareAndSwapInt64Unconditional(s, field, old, new) ==
    [swapped |-> TRUE, stats |-> [s EXCEPT ![field] = new]]

\* atomic.CompareAndSwapInt64(&s.field, old, new): whether it swapped, and the counters it leaves
CompareAndSwapInt64(s, field, old, new) ==
    IF s[field] = old
    THEN [swapped |-> TRUE, stats |-> [s EXCEPT ![field] = new]]
    ELSE [swapped |-> FALSE, stats |-> s]

\* a swap that resets the whole struct
SwapInt64ResetsAll(s, field, new) ==
    [old |-> s[field], stats |-> [f \in DOMAIN s |-> new]]

\* atomic.SwapInt64(&s.field, new): the value it returns, and the counters it leaves
SwapInt64(s, field, new) ==
    [old |-> s[field], stats |-> [s EXCEPT ![field] = new]]

\* a write of a counter ends the quiet time of every copyAndReset in progress
Disturbed == quiet' = [t \in Threads |-> FALSE]

\* the labels of copyAndReset
CrLabels == {"cr_sent", "cr_failed", "cr_total", "cr_overflowed", "cr_largest", "cr_ret"}

\* the labels of setQueueLargest
SqlLabels == {"sql_load", "sql_cas"}

\* numSent and totalEvents as they are in the counters s for a caller of
\* copyAndReset that has swapped the values c out of them
Logical(s, c) ==
    [numSent |-> s.numSent + c.numSent, totalEvents |-> s.totalEvents + c.totalEvents]

\* history: the values of numSent and totalEvents after a write are one more
\* instant of every copyAndReset in progress
Written ==
    held' = [t \in Threads |->
                IF pc[t] \in CrLabels THEN held[t] \cup {Logical(queueStats', copy[t])}
                ELSE held[t]]

\* history: setQueueLargest(count) is called
Passed(count) == IF highest < 0 \/ count <= highest THEN highest ELSE count

\* history: queueLargest is swapped
Swapped == IF \E t \in Threads : pc[t] \in SqlLabels THEN -1 ELSE 0

----------------------------------------------------------------------------
\* c.field = atomic.SwapInt64(&s.field, 0) of copyAndReset, at label l
SwapField(t, l, field, next) ==
    /\ pc[t] = l
    /\ LET r == SwapInt64(queueStats, field, 0) IN
          /\ copy' = [copy EXCEPT ![t][field] = r.old]
          /\ queueStats' = r.stats
    /\ highest' = IF field = "queueLargest" THEN Swapped ELSE highest
    /\ QGoto(t, next)
    /\ UNCHANGED <<op, msg, newVal, currVal, incremented, returned, quiet, held>>

CrNumSent(t) == SwapField(t, "cr_sent", "numSent", "cr_failed")
CrNumFailed(t) == SwapField(t, "cr_failed", "numFailed", "cr_total")
CrTotalEvents(t) == SwapField(t, "cr_total", "totalEvents", "cr_overflowed")
CrNumOverflowed(t) == SwapField(t, "cr_overflowed", "numOverflowed", "cr_largest")
CrQueueLargest(t) == SwapField(t, "cr_largest", "queueLargest", "cr_ret")

\* return c: to generateMetricsMessage, which appends the five values to the
\* message, or to a direct caller
CopyAndResetReturn(t) ==
    /\ pc[t] = "cr_ret"
    /\ returned' = returned + copy[t].totalEvents
    /\ copy' = [copy EXCEPT ![t] = ZeroStats]
    /\ quiet' = [quiet EXCEPT ![t] = FALSE]
    /\ msg' = IF op[t] = "flush"
              THEN [msg EXCEPT ![t].queueStats = copy[t],
                               ![t].order = Append(@, "queueStats")]
              ELSE msg
    /\ op' = [op EXCEPT ![t] = IF op[t] = "flush" THEN "flush" ELSE "idle"]
    /\ held' = [held EXCEPT ![t] = {}]
    /\ QGoto(t, IF op[t] = "flush" THEN "gm_meas" ELSE "idle")
    /\ UNCHANGED <<queueStats, newVal, currVal, incremented, highest>>

\* queueStats.copyAndReset() is called by a thread that is executing nothing else
CallCopyAndReset(t) ==
    /\ pc[t] = "idle"
    /\ op' = [op EXCEPT ![t] = "copyAndReset"]
    /\ quiet' = [quiet EXCEPT ![t] = TRUE]
    /\ held' = [held EXCEPT ![t] = {Logical(queueStats, copy[t])}]
    /\ QGoto(t, "cr_sent")
    /\ UNCHANGED <<msg, queueStats, copy, newVal, currVal, incremented, returned, highest>>

----------------------------------------------------------------------------
\* setQueueLargest(count) is called: newVal := int64(count)
CallSetQueueLargest(t, count) ==
    /\ pc[t] = "idle"
    /\ op' = [op EXCEPT ![t] = "setQueueLargest"]
    /\ newVal' = [newVal EXCEPT ![t] = count]
    /\ highest' = Passed(count)
    /\ QGoto(t, "sql_load")
    /\ UNCHANGED <<msg, queueStats, copy, currVal, incremented, returned, quiet, held>>

\* currVal := atomic.LoadInt64(&s.queueLargest); if newVal <= currVal { return }
SqlLoad(t) ==
    /\ pc[t] = "sql_load"
    /\ LET v == LoadInt64(queueStats, "queueLargest") IN
          IF newVal[t] <= v
          THEN /\ currVal' = [currVal EXCEPT ![t] = 0]
               /\ newVal' = [newVal EXCEPT ![t] = 0]
               /\ op' = [op EXCEPT ![t] = "idle"]
               /\ QGoto(t, "idle")
          ELSE /\ currVal' = [currVal EXCEPT ![t] = v]
               /\ QGoto(t, "sql_cas")
               /\ UNCHANGED <<newVal, op>>
    /\ UNCHANGED <<msg, queueStats, copy, incremented, returned, quiet, held, highest>>

\* if atomic.CompareAndSwapInt64(&s.queueLargest, currVal, newVal) { return }
SqlCompareAndSwap(t) ==
    /\ pc[t] = "sql_cas"
    /\ LET r == CompareAndSwapInt64(queueStats, "queueLargest", currVal[t], newVal[t]) IN
          /\ queueStats' = r.stats
          /\ IF r.swapped
             THEN /\ newVal' = [newVal EXCEPT ![t] = 0]
                  /\ op' = [op EXCEPT ![t] = "idle"]
                  /\ QGoto(t, "idle")
                  /\ Disturbed
             ELSE /\ QGoto(t, "sql_load")
                  /\ UNCHANGED <<newVal, op, quiet>>
    /\ currVal' = [currVal EXCEPT ![t] = 0]
    /\ UNCHANGED <<msg, copy, incremented, returned, held, highest>>

----------------------------------------------------------------------------
\* a thread that reports an event increments totalEvents ...
ReportEvent(t) ==
    /\ pc[t] = "idle"
    /\ incremented < MaxEvents
    /\ incremented' = incremented + 1
    /\ queueStats' = AddInt64(queueStats, "totalEvents", 1)
    /\ op' = [op EXCEPT ![t] = "event"]
    /\ Disturbed
    /\ Written
    /\ QGoto(t, "ev_sent")
    /\ UNCHANGED <<msg, copy, newVal, currVal, returned, highest>>

\* ... and then numSent, when the event is sent
EventSent(t) ==
    /\ pc[t] = "ev_sent"
    /\ queueStats' = AddInt64(queueStats, "numSent", 1)
    /\ op' = [op EXCEPT ![t] = "idle"]
    /\ Disturbed
    /\ Written
    /\ QGoto(t, "idle")
    /\ UNCHANGED <<msg, copy, newVal, currVal, incremented, returned, highest>>


\* a generateMetricsMessage that starts with the measurements
StartFlushWithMeasurements(t) ==
    /\ pc[t] = "idle"
    /\ Goto(t, "gm_meas")
    /\ op' = [op EXCEPT ![t] = "flush"]
    /\ msg' = [msg EXCEPT ![t] = EmptyMessage]
    /\ UNCHANGED <<tmVars, name, cap, ret, stagedCap, tableVars, procVars, nSpans>>
    /\ UNCHANGED <<ghostVars, aggVars, queueVars>>

(***************************************************************************)
(* generateMetricsMessage                                                  *)
(***************************************************************************)
\* generateMetricsMessage is called: it starts the message and, in the array of
\* the measurements, calls queueStats.copyAndReset()
StartFlush(t) ==
    /\ pc[t] = "idle"
    /\ Goto(t, "cr_sent")
    /\ op' = [op EXCEPT ![t] = "flush"]
    /\ msg' = [msg EXCEPT ![t] = EmptyMessage]
    /\ quiet' = [quiet EXCEPT ![t] = TRUE]
    /\ held' = [held EXCEPT ![t] = {Logical(queueStats, copy[t])}]
    /\ UNCHANGED <<tmVars, name, cap, ret, stagedCap, tableVars, procVars, nSpans>>
    /\ UNCHANGED <<ghostVars, aggVars, queueStats, copy, newVal, currVal, incremented, returned, highest>>

\* metricsHTTPMeasurements.lock.Lock()
GmMeasurementsLock(t) ==
    /\ pc[t] = "gm_meas"
    /\ MeasLock(t)
    /\ Goto(t, "gm_meas_body")
    /\ UNCHANGED <<tmVars, op, name, cap, ret, stagedCap, measurements, histograms, histLock,
                   procVars, msg, nSpans>>
    /\ UNCHANGED <<ghostVars, aggVars, queueVars>>

\* a flush that keeps the lock of the measurements until it returns
GmMeasurementsKeepsLock(t) ==
    /\ pc[t] = "gm_meas_body"
    /\ msg' = [msg EXCEPT ![t].measurements = MeasurementsArray(measurements),
                          ![t].order = Append(@, "measurements")]
    /\ measurements' = EmptyMap
    /\ Goto(t, "gm_hist")
    /\ drains' = Drained("measurements", Cardinality(DOMAIN measurements))
    /\ UNCHANGED <<tmVars, op, name, cap, ret, stagedCap, measLock, histograms, histLock,
                   procVars, nSpans>>
    /\ UNCHANGED <<aggVars, audit, recorded, sampled, emitted, queueVars>>

\* a flush that appends the measurements to the message and leaves them in the table
GmMeasurementsNoReset(t) ==
    /\ pc[t] = "gm_meas_body"
    /\ msg' = [msg EXCEPT ![t].measurements = MeasurementsArray(measurements),
                          ![t].order = Append(@, "measurements")]
    /\ measLock' = NoThread
    /\ Goto(t, "gm_hist")
    /\ drains' = Drained("measurements", Cardinality(DOMAIN measurements))
    /\ UNCHANGED <<tmVars, op, name, cap, ret, stagedCap, measurements, histograms, histLock,
                   procVars, nSpans>>
    /\ UNCHANGED <<aggVars, audit, recorded, sampled, emitted, queueVars>>

\* every measurement is added to the message; the measurements are cleared;
\* metricsHTTPMeasurements.lock.Unlock()
GmMeasurements(t) ==
    /\ pc[t] = "gm_meas_body"
    /\ msg' = [msg EXCEPT ![t].measurements = MeasurementsArray(measurements),
                          ![t].order = Append(@, "measurements")]
    /\ measurements' = EmptyMap
    /\ measLock' = NoThread
    /\ Goto(t, "gm_hist")
    /\ drains' = Drained("measurements", Cardinality(DOMAIN measurements))
    /\ UNCHANGED <<tmVars, op, name, cap, ret, stagedCap, histograms, histLock,
                   procVars, nSpans>>
    /\ UNCHANGED <<aggVars, audit, recorded, sampled, emitted, queueVars>>

\* metricsHTTPHistograms.lock.Lock()
GmHistogramsLock(t) ==
    /\ pc[t] = "gm_hist"
    /\ HistLock(t)
    /\ Goto(t, "gm_hist_body")
    /\ UNCHANGED <<tmVars, op, name, cap, ret, stagedCap, measurements, measLock, histograms,
                   procVars, msg, nSpans>>
    /\ UNCHANGED <<ghostVars, aggVars, queueVars>>

\* a flush that appends the histograms to the message and leaves them in the table
GmHistogramsNoReset(t) ==
    /\ pc[t] = "gm_hist_body"
    /\ msg' = [msg EXCEPT ![t].histograms = HistogramsArray(histograms),
                          ![t].order = Append(@, "histograms")]
    /\ histLock' = NoThread
    /\ Goto(t, "gm_overflow")
    /\ drains' = Drained("histograms", Cardinality(DOMAIN histograms))
    /\ UNCHANGED <<tmVars, op, name, cap, ret, stagedCap, measurements, measLock, histograms,
                   procVars, nSpans>>
    /\ UNCHANGED <<aggVars, audit, recorded, sampled, emitted, queueVars>>

\* index = 0; addHistogramToBSON is called for every histogram, and appends those
\* whose encoding does not fail (the encoding of those in failed does); the
\* histograms are cleared; metricsHTTPHistograms.lock.Unlock()
GmHistogramsEncoding(t, failed) ==
    /\ pc[t] = "gm_hist_body"
    /\ \E o \in RangeOrders(histograms) :
          msg' = [msg EXCEPT
                     ![t].histograms =
                         HistogramsArray([n \in DOMAIN histograms \ failed |-> histograms[n]]),
                     ![t].keys = HistogramKeys(o, failed, 0),
                     ![t].logged = failed,
                     ![t].order = Append(@, "histograms")]
    /\ histograms' = EmptyMap
    /\ histLock' = NoThread
    /\ Goto(t, "gm_overflow")
    /\ drains' = Drained("histograms", Cardinality(DOMAIN histograms \ failed))
    /\ UNCHANGED <<tmVars, op, name, cap, ret, stagedCap, measurements, measLock,
                   procVars, nSpans>>
    /\ UNCHANGED <<aggVars, audit, recorded, sampled, emitted, queueVars>>

\* the same, every histogram being encoded
GmHistograms(t) == GmHistogramsEncoding(t, {})

\* mTransMap.Overflow() is called
GmOverflow(t) ==
    /\ pc[t] = "gm_overflow"
    /\ MutexLock(t)
    /\ Goto(t, "ovf_body")
    /\ UNCHANGED <<transactionNames, currCap, nextCap, overflow, op, name, cap, ret, stagedCap,
                   mainVars>>

\* TransactionNameOverflow is appended if Overflow() returned true; mTransMap.Reset() is called
GmReset(t) ==
    /\ pc[t] = "gm_overflow_if"
    /\ msg' = [msg EXCEPT ![t].TransactionNameOverflow = ret[t],
                          ![t].order = Append(@, "TransactionNameOverflow")]
    /\ ResetLock(t)
    /\ Goto(t, "reset_names")
    /\ ret' = [ret EXCEPT ![t] = FALSE]
    /\ UNCHANGED <<transactionNames, currCap, nextCap, overflow, op, name, cap, stagedCap,
                   tableVars, procVars, nSpans>>
    /\ UNCHANGED <<ghostVars, aggVars, queueVars>>

\* generateMetricsMessage returns the message msg[t], which leaves the model
GmReturn(t) ==
    /\ pc[t] = "gm_done"
    /\ msg' = [msg EXCEPT ![t] = EmptyMessage]
    /\ Goto(t, "idle")
    /\ op' = [op EXCEPT ![t] = "idle"]
    /\ emitted' = Emitted(msg[t])
    /\ UNCHANGED <<tmVars, name, cap, ret, stagedCap, tableVars, procVars, nSpans>>
    /\ UNCHANGED <<aggVars, audit, recorded, sampled, drains, queueVars>>

(***************************************************************************)
(* The channel-based metricsAggregator                                     *)
(***************************************************************************)
MetricsRecordMaxSize == 100
MaxTransactionNames == 200

\* the counts of the aggregator's measurements are told apart up to MaxCount: a
\* count++ of a count that is MaxCount leaves it as it is
MaxCount == 1

\* the MetricsRecord passed to PushMetricsRecord (a request with a transaction name)
AggRecords ==
    {[Transaction |-> sT1, Duration |-> WideZero, Status |-> 200, Method |-> sGET,
      HasError |-> FALSE]}

\* the threads that call PushMetricsRecord, those that call FlushBSON, and those
\* that notify the goroutine to exit
Pushers == {"w1"}
Flushers == {"w2", "p"}
Notifiers == {"w1"}

\* newMetricsAggregator(): the channels records (buffered, empty), raw and exit
\* (open), no transaction names and no metrics
newMetricsAggregator ==
    [records    |-> <<>>,
     raw        |-> "open",
     exit       |-> "open",
     transNames |-> {},
     metrics    |-> [histograms |-> EmptyMap, measurements |-> EmptyMap]]

\* uint64(duration.Seconds()*1e6)
DurationMicros(d) == d.sec * 1000000 + d.nsec \div Microsecond

\* am.isWithinLimit(transaction, max): the names it leaves, and its result
amIsWithinLimit(names, transaction, max) ==
    IF transaction \notin names
    THEN IF Cardinality(names) < max
         THEN [transNames |-> names \cup {transaction}, ok |-> TRUE]
         ELSE [transNames |-> names, ok |-> FALSE]
    ELSE [transNames |-> names, ok |-> TRUE]

\* am.recordHistogram(transaction, duration): the histograms it leaves (recordValue
\* records nothing yet)
amRecordHistogram(hs, transaction, duration) ==
    IF transaction \in DOMAIN hs THEN hs
    ELSE (transaction :> [tags |-> IF transaction # sEmpty
                                   THEN sTransactionName :> transaction
                                   ELSE EmptyMap]) @@ hs

\* an id assembled from the sorted tags
amMeasurementIDSorted(tags, o) == AppendTags(<<>>, SortStrings(TagStrings(tags, o)))

\* the id am.recordMeasurement assembles while `range` visits tags in the order o
amMeasurementID(tags, o) == AppendTags(<<>>, TagStrings(tags, o))

\* am.recordMeasurement(&tags, duration): the measurements it leaves; o is the
\* order in which `range` visits the map tags
amRecordMeasurement(ms, tags, o, duration) ==
    LET id == amMeasurementID(tags, o)
        m  == IF id \in DOMAIN ms THEN ms[id] ELSE [tags |-> tags, count |-> 0, sum |-> 0]
    IN  (id :> [m EXCEPT !.count = IF @ < MaxCount THEN @ + 1 ELSE @,
                         !.sum = @ + DurationMicros(duration)]) @@ ms

\* am.processMeasurements(transaction, record): the measurements it may leave, one
\* for each choice of the orders in which `range` visits the tags
amProcessMeasurements(ms, transaction, record) ==
    LET pTags == sTransactionName :> transaction
        mTags == pTags @@ (sHttpMethod :> record.Method)
        sTags == pTags @@ (sHttpStatus :> Itoa(record.Status))
        eTags == pTags @@ (sErrors :> sTrue)
    IN  {LET m1 == amRecordMeasurement(ms, pTags, o1, record.Duration)
             m2 == amRecordMeasurement(m1, mTags, o2, record.Duration)
             m3 == amRecordMeasurement(m2, sTags, o3, record.Duration)
         IN  IF record.HasError
             THEN amRecordMeasurement(m3, eTags, o4, record.Duration)
             ELSE m3 :
         o1 \in RangeOrders(pTags), o2 \in RangeOrders(mTags),
         o3 \in RangeOrders(sTags), o4 \in RangeOrders(eTags)}

\* am.updateMetricsRaw(record): the aggregators it may leave
updateMetricsRaw(a, record) ==
    LET h0 == amRecordHistogram(a.metrics.histograms, sEmpty, record.Duration)
        l  == amIsWithinLimit(a.transNames, record.Transaction, MaxTransactionNames)
        tx == IF record.Transaction = sEmpty THEN UnknownTransactionName
              ELSE IF l.ok THEN record.Transaction
              ELSE OtherTransactionName
        hs == IF record.Transaction # sEmpty /\ l.ok
              THEN amRecordHistogram(h0, record.Transaction, record.Duration)
              ELSE h0
    IN  {[a EXCEPT !.transNames = IF record.Transaction # sEmpty THEN l.transNames ELSE @,
                   !.metrics = [histograms |-> hs, measurements |-> ms]] :
         ms \in amProcessMeasurements(a.metrics.measurements, tx, record)}

\* the process runs until a goroutine panics
Running == processMetrics.pc # "panic"

\* what the steps of the aggregator leave unchanged
AggFrame ==
    UNCHANGED <<tmVars, name, cap, stagedCap, tableVars, txn, calls, before, msg, nSpans,
                ghostVars, queueVars>>

\* thread t calls am.PushMetricsRecord(record)
CallPushMetricsRecord(t, record) ==
    /\ Running
    /\ pc[t] = "idle"
    /\ Goto(t, "pmr_select")
    /\ op' = [op EXCEPT ![t] = "PushMetricsRecord"]
    /\ span' = [span EXCEPT ![t] = record]
    /\ UNCHANGED <<ret, aggregator, processMetrics>>
    /\ AggFrame

\* a send on the records channel that waits until the channel has room
PushMetricsRecordBlocking(t) ==
    /\ Running
    /\ pc[t] = "pmr_select"
    /\ Len(aggregator.records) < MetricsRecordMaxSize
    /\ aggregator' = [aggregator EXCEPT !.records = Append(@, span[t])]
    /\ ret' = [ret EXCEPT ![t] = TRUE]
    /\ Goto(t, "pmr_ret")
    /\ UNCHANGED <<op, span, processMetrics>>
    /\ AggFrame

\* select { case am.records <- record: return true; default: return false }
PushMetricsRecordSelect(t) ==
    /\ Running
    /\ pc[t] = "pmr_select"
    /\ IF Len(aggregator.records) < MetricsRecordMaxSize
       THEN /\ aggregator' = [aggregator EXCEPT !.records = Append(@, span[t])]
            /\ ret' = [ret EXCEPT ![t] = TRUE]
       ELSE /\ aggregator' = aggregator
            /\ ret' = [ret EXCEPT ![t] = FALSE]
    /\ Goto(t, "pmr_ret")
    /\ UNCHANGED <<op, span, processMetrics>>
    /\ AggFrame

\* am.PushMetricsRecord(record) from its call to its return as one step of a
\* thread that does not keep the result
PushMetricsRecord(t, record) ==
    /\ Running
    /\ pc[t] = "idle"
    /\ aggregator' = IF Len(aggregator.records) < MetricsRecordMaxSize
                     THEN [aggregator EXCEPT !.records = Append(@, record)]
                     ELSE aggregator
    /\ UNCHANGED <<pc, op, ret, span, processMetrics>>
    /\ AggFrame

\* the caller has the result of PushMetricsRecord
PushMetricsRecordReturn(t) ==
    /\ Running
    /\ pc[t] = "pmr_ret"
    /\ Goto(t, "idle")
    /\ op' = [op EXCEPT ![t] = "idle"]
    /\ span' = [span EXCEPT ![t] = NoSpan]
    /\ ret' = [ret EXCEPT ![t] = FALSE]
    /\ UNCHANGED <<aggregator, processMetrics>>
    /\ AggFrame

\* thread t calls am.FlushBSON() and waits to send on rawReq
CallFlushBSON(t) ==
    /\ Running
    /\ pc[t] = "idle"
    /\ Goto(t, "fb_send")
    /\ op' = [op EXCEPT ![t] = "FlushBSON"]
    /\ UNCHANGED <<ret, span, aggregator, processMetrics>>
    /\ AggFrame

\* ProcessMetrics: case record := <-am.records: am.updateMetricsRaw(record)
ProcessMetricsRecord ==
    /\ processMetrics.pc = "select"
    /\ aggregator.records # <<>>
    /\ aggregator' \in updateMetricsRaw([aggregator EXCEPT !.records = Tail(@)],
                                        Head(aggregator.records))
    /\ UNCHANGED <<pc, op, ret, span, processMetrics>>
    /\ AggFrame

\* ProcessMetrics: case <-am.rawReq, with the send am.rawReq <- struct{}{} of the
\* FlushBSON call of t; the goroutine calls am.pushMetricsRaw()
ProcessMetricsRawReq(t) ==
    /\ processMetrics.pc = "select"
    /\ pc[t] = "fb_send"
    /\ Goto(t, "fb_recv")
    /\ processMetrics' = [pc |-> "push", served |-> t]
    /\ UNCHANGED <<op, ret, span, aggregator>>
    /\ AggFrame

\* a pushMetricsRaw that returns to the select without sending
PushMetricsRawDropped(t) ==
    /\ processMetrics.pc = "push"
    /\ pc[t] = "fb_recv"
    /\ processMetrics' = [pc |-> "select", served |-> NoThread]
    /\ UNCHANGED <<pc, op, ret, span, aggregator>>
    /\ AggFrame


\* pushMetricsRaw: am.raw <- am.metrics, with the receive raw := <-am.raw of the
\* FlushBSON call of t; ret[t] tells that t has received a value that was sent
PushMetricsRaw(t) ==
    /\ processMetrics.pc = "push"
    /\ aggregator.raw = "open"
    /\ pc[t] = "fb_recv"
    /\ Goto(t, "fb_ret")
    /\ ret' = [ret EXCEPT ![t] = TRUE]
    /\ processMetrics' = [pc |-> "select", served |-> NoThread]
    /\ UNCHANGED <<op, span, aggregator>>
    /\ AggFrame

\* pushMetricsRaw when the raw channel is closed: the send panics
PushMetricsRawClosed ==
    /\ processMetrics.pc = "push"
    /\ aggregator.raw = "closed"
    /\ processMetrics' = [processMetrics EXCEPT !.pc = "panic"]
    /\ UNCHANGED <<pc, op, ret, span, aggregator>>
    /\ AggFrame

\* raw := <-am.raw of FlushBSON when the raw channel is closed: the zero value
FlushBSONReceiveClosed(t) ==
    /\ Running
    /\ pc[t] = "fb_recv"
    /\ aggregator.raw = "closed"
    /\ Goto(t, "fb_ret")
    /\ ret' = [ret EXCEPT ![t] = FALSE]
    /\ UNCHANGED <<op, span, aggregator, processMetrics>>
    /\ AggFrame

\* return am.createMetricsMsg(raw): the message holds nothing of raw
FlushBSONReturn(t) ==
    /\ Running
    /\ pc[t] = "fb_ret"
    /\ Goto(t, "idle")
    /\ op' = [op EXCEPT ![t] = "idle"]
    /\ ret' = [ret EXCEPT ![t] = FALSE]
    /\ UNCHANGED <<span, aggregator, processMetrics>>
    /\ AggFrame

\* a ProcessMetrics that returns when it is notified to exit
CloseRawAndReturn ==
    /\ aggregator' = [aggregator EXCEPT !.raw = "closed"]
    /\ processMetrics' = [processMetrics EXCEPT !.pc = "done"]

\* close(am.raw); break: close panics if the channel is closed already, and break
\* ends the select statement, so that the for loop goes on
CloseRawAndBreak ==
    IF aggregator.raw = "open"
    THEN /\ aggregator' = [aggregator EXCEPT !.raw = "closed"]
         /\ processMetrics' = processMetrics
    ELSE /\ aggregator' = aggregator
         /\ processMetrics' = [processMetrics EXCEPT !.pc = "panic"]

\* ProcessMetrics: case <-am.exit, with the send am.exit <- struct{}{} of thread t
ProcessMetricsExit(t) ==
    /\ processMetrics.pc = "select"
    /\ pc[t] = "idle"
    /\ aggregator.exit = "open"
    /\ CloseRawAndBreak
    /\ UNCHANGED <<pc, op, ret, span>>
    /\ AggFrame

\* thread t notifies the goroutine by close(am.exit)
CloseExit(t) ==
    /\ Running
    /\ pc[t] = "idle"
    /\ aggregator.exit = "open"
    /\ aggregator' = [aggregator EXCEPT !.exit = "closed"]
    /\ UNCHANGED <<pc, op, ret, span, processMetrics>>
    /\ AggFrame

\* ProcessMetrics: case <-am.exit when the exit channel is closed
ProcessMetricsExitClosed ==
    /\ processMetrics.pc = "select"
    /\ aggregator.exit = "closed"
    /\ CloseRawAndBreak
    /\ UNCHANGED <<pc, op, ret, span>>
    /\ AggFrame


ThreadsIdle ==
    /\ pc = [t \in Threads |-> "idle"]
    /\ op = [t \in Threads |-> "idle"]
    /\ name = [t \in Threads |-> sEmpty]
    /\ cap = [t \in Threads |-> 0]
    /\ ret = [t \in Threads |-> FALSE]
    /\ span = [t \in Threads |-> NoSpan]
    /\ txn = [t \in Threads |-> sEmpty]
    /\ calls = [t \in Threads |-> 0]
    /\ before = [t \in Threads |-> EmptyMap]
    /\ msg = [t \in Threads |-> EmptyMessage]
    /\ copy = [t \in Threads |-> ZeroStats]
    /\ newVal = [t \in Threads |-> 0]
    /\ currVal = [t \in Threads |-> 0]
    /\ quiet = [t \in Threads |-> FALSE]
    /\ held = [t \in Threads |-> {}]

\* the tables and the output of the package before any span is processed
TablesEmpty ==
    /\ measurements = EmptyMap
    /\ measLock = NoThread
    /\ histograms = EmptyMap
    /\ histLock = NoThread
    /\ queueStats = ZeroStats
    /\ incremented = 0
    /\ returned = 0
    /\ highest = 0
    /\ nSpans = 0
    /\ aggregator = newMetricsAggregator
    /\ processMetrics = [pc |-> "select", served |-> NoThread]

\* the history variables named in the set a are kept from the start, the others
\* stay as they are
History(a) ==
    /\ audit = a
    /\ recorded = EmptyBag
    /\ sampled = EmptyBag
    /\ emitted = [measurements |-> EmptyBag, histograms |-> EmptyBag]
    /\ drains = [measurements |-> <<>>, histograms |-> <<>>]

(***************************************************************************)
(* SpecTransMap: a TransMap built by NewTransMap(c) whose four methods are *)
(* called by the threads in any order (TestTransMap builds one with        *)
(* NewTransMap(3)).                                                        *)
(***************************************************************************)
InitTransMap ==
    /\ \E c \in Caps : NewTransMap(c) /\ stagedCap = c
    /\ ThreadsIdle
    /\ TablesEmpty
    /\ History({})

NextTransMap ==
    \E t \in Threads :
        \/ \E n \in TxnNames : CallIsWithinLimit(t, n)
        \/ IsWithinLimitBody(t)
        \/ IsWithinLimitReturn(t)
        \/ \E c \in Caps : CallSetCap(t, c)
        \/ SetCapBody(t)
        \/ SetCapReturn(t)
        \/ CallReset(t)
        \/ ResetNames(t)
        \/ ResetCap(t)
        \/ ResetOverflow(t)
        \/ ResetReturn(t)
        \/ CallOverflow(t)
        \/ OverflowBody(t)
        \/ OverflowReturn(t)

SpecTransMap == InitTransMap /\ [][NextTransMap]_vars

(***************************************************************************)
(* Spec: the package. Its TransMap is mTransMap, built with the default    *)
(* capacity; the writers process spans, the periodic thread generates the  *)
(* metrics messages and stores the capacity of the settings with SetCap.   *)
(***************************************************************************)
Init ==
    /\ NewTransMap(metricsTransactionsMaxDefault)
    /\ stagedCap = metricsTransactionsMaxDefault
    /\ ThreadsIdle
    /\ TablesEmpty
    /\ History({})

Next ==
    \/ \E t \in Writers :
          \/ \E s \in SpanInputs : StartProcess(t, s)
          \/ RecordHistogramBody(t)
          \/ ProcessAdmit(t)
          \/ ProcessUnknown(t)
          \/ IsWithinLimitBody(t)
          \/ IsWithinLimitReturn(t)
          \/ ProcessNamed(t)
          \/ ProcessNamedMeasurements(t)
          \/ ProcessOther(t)
          \/ PmPrimary(t)
          \/ PmMethod(t)
          \/ PmStatus(t)
          \/ PmError(t)
          \/ PmReturn(t)
    \/ \E t \in Periodic :
          \/ \E c \in SettingsCaps : CallSetCap(t, c)
          \/ SetCapBody(t)
          \/ SetCapReturn(t)
          \/ StartFlush(t)
          \/ CrNumSent(t)
          \/ CrNumFailed(t)
          \/ CrTotalEvents(t)
          \/ CrNumOverflowed(t)
          \/ CrQueueLargest(t)
          \/ CopyAndResetReturn(t)
          \/ GmMeasurementsLock(t)
          \/ GmMeasurements(t)
          \/ GmHistogramsLock(t)
          \/ GmHistograms(t)
          \/ GmOverflow(t)
          \/ OverflowBody(t)
          \/ OverflowReturn(t)
          \/ GmReset(t)
          \/ ResetNames(t)
          \/ ResetCap(t)
          \/ ResetOverflow(t)
          \/ ResetReturn(t)
          \/ GmReturn(t)

Spec == Init /\ [][Next]_vars

(***************************************************************************)
(* SpecMeasurements: a table of measurements on which the threads call     *)
(* recordMeasurement (as TestRecordMeasurement does) and                   *)
(* processMeasurements, with no flush.                                     *)
(***************************************************************************)
\* recordMeasurement(metricsHTTPMeasurements, nm, &tags, value, 1, reportValue), called
\* while no thread is inside processMeasurements
DirectRecordMeasurement(t, nm, tags, value, reportValue) ==
    /\ pc[t] = "idle"
    /\ measLock = NoThread
    /\ nSpans < MaxCalls
    /\ nSpans' = nSpans + 1
    /\ \E o \in RangeOrders(tags) :
          measurements' = recordMeasurement(measurements, nm, tags, o, value, 1, reportValue)
    /\ recorded' = Observed(nm, tags, value, 1, reportValue)
    /\ drains' = Recording("measurements")
    /\ UNCHANGED <<tmVars, threadVars, stagedCap, measLock, histograms, histLock, procVars, msg>>
    /\ UNCHANGED <<aggVars, audit, sampled, emitted, queueVars>>

\* s.processMeasurements(transactionName), called by a thread that is executing nothing else
DirectProcessMeasurements(t, s, transactionName) ==
    /\ pc[t] = "idle"
    /\ nSpans < MaxCalls
    /\ nSpans' = nSpans + 1
    /\ MeasLock(t)
    /\ span' = [span EXCEPT ![t] = s]
    /\ txn' = [txn EXCEPT ![t] = transactionName]
    /\ before' = [before EXCEPT ![t] = measurements]
    /\ Goto(t, "pm_primary")
    /\ op' = [op EXCEPT ![t] = "processMeasurements"]
    /\ UNCHANGED <<tmVars, name, cap, ret, stagedCap, measurements, histograms, histLock,
                   calls, msg>>
    /\ UNCHANGED <<ghostVars, aggVars, queueVars>>

NextMeasurements ==
    \E t \in Recorders :
        \/ \E nm \in MetricNames, tags \in TagMaps, d \in Durations, rv \in BOOLEAN :
              DirectRecordMeasurement(t, nm, tags, d, rv)
        \/ \E s \in NamedSpans, n \in TransactionNameArgs : DirectProcessMeasurements(t, s, n)
        \/ PmPrimary(t)
        \/ PmMethod(t)
        \/ PmStatus(t)
        \/ PmError(t)
        \/ PmReturn(t)

InitMeasurements ==
    /\ NewTransMap(metricsTransactionsMaxDefault)
    /\ stagedCap = metricsTransactionsMaxDefault
    /\ ThreadsIdle
    /\ TablesEmpty
    /\ History({"recorded"})

SpecMeasurements == InitMeasurements /\ [][NextMeasurements]_vars

(***************************************************************************)
(* SpecSerial: as Spec, but no span is processed while the periodic thread *)
(* is generating a message or storing a capacity, and the periodic thread  *)
(* starts nothing while a span is processed.                               *)
(***************************************************************************)
NextSerial ==
    \/ /\ \A p \in Periodic : pc[p] = "idle"
       /\ \E t \in Writers :
             \/ \E s \in SpanInputs : StartProcess(t, s)
             \/ RecordHistogramBody(t)
             \/ ProcessAdmit(t)
             \/ ProcessUnknown(t)
             \/ IsWithinLimitBody(t)
             \/ IsWithinLimitReturn(t)
             \/ ProcessNamed(t)
             \/ ProcessNamedMeasurements(t)
             \/ ProcessOther(t)
             \/ PmPrimary(t)
             \/ PmMethod(t)
             \/ PmStatus(t)
             \/ PmError(t)
             \/ PmReturn(t)
    \/ /\ \A w \in Writers : pc[w] = "idle"
       /\ \E t \in Periodic :
             \/ \E c \in SettingsCaps : CallSetCap(t, c)
             \/ SetCapBody(t)
             \/ SetCapReturn(t)
             \/ StartFlush(t)
             \/ CrNumSent(t)
             \/ CrNumFailed(t)
             \/ CrTotalEvents(t)
             \/ CrNumOverflowed(t)
             \/ CrQueueLargest(t)
             \/ CopyAndResetReturn(t)
             \/ GmMeasurementsLock(t)
             \/ GmMeasurements(t)
             \/ GmHistogramsLock(t)
             \/ GmHistograms(t)
             \/ GmOverflow(t)
             \/ OverflowBody(t)
             \/ OverflowReturn(t)
             \/ GmReset(t)
             \/ ResetNames(t)
             \/ ResetCap(t)
             \/ ResetOverflow(t)
             \/ ResetReturn(t)
             \/ GmReturn(t)

SpecSerial == Init /\ [][NextSerial]_vars

(***************************************************************************)
(* SpecQueueStats: the recorders report events to the queue statistics     *)
(* while the periodic thread calls copyAndReset.                           *)
(***************************************************************************)
NextQueueStats ==
    \/ \E t \in Recorders :
          \/ ReportEvent(t)
          \/ EventSent(t)
    \/ \E t \in Periodic :
          \/ CallCopyAndReset(t)
          \/ CrNumSent(t)
          \/ CrNumFailed(t)
          \/ CrTotalEvents(t)
          \/ CrNumOverflowed(t)
          \/ CrQueueLargest(t)
          \/ CopyAndResetReturn(t)

SpecQueueStats == Init /\ [][NextQueueStats]_vars

(***************************************************************************)
(* SpecQueueLargest: the recorders report queue lengths with               *)
(* setQueueLargest while the periodic thread calls copyAndReset.           *)
(***************************************************************************)
NextQueueLargest ==
    \/ \E t \in Recorders :
          \/ \E count \in 1 .. MaxQueue : CallSetQueueLargest(t, count)
          \/ SqlLoad(t)
          \/ SqlCompareAndSwap(t)
    \/ \E t \in Periodic :
          \/ CallCopyAndReset(t)
          \/ CrNumSent(t)
          \/ CrNumFailed(t)
          \/ CrTotalEvents(t)
          \/ CrNumOverflowed(t)
          \/ CrQueueLargest(t)
          \/ CopyAndResetReturn(t)

SpecQueueLargest == Init /\ [][NextQueueLargest]_vars

(***************************************************************************)
(* SpecHistograms: a table of histograms on which the threads call         *)
(* recordHistogram (as TestRecordHistogram does), with no flush; the       *)
(* history of the calls is kept.                                           *)
(***************************************************************************)
\* recordHistogram(metricsHTTPHistograms, nm, duration) is called by a thread that
\* is executing nothing else: hi.lock.Lock(). The arguments are kept in span[t].
DirectRecordHistogram(t, nm, duration) ==
    /\ pc[t] = "idle"
    /\ nSpans < MaxSamples
    /\ nSpans' = nSpans + 1
    /\ HistLock(t)
    /\ span' = [span EXCEPT ![t] = [NoSpan EXCEPT !.Transaction = nm, !.Duration = duration]]
    /\ Goto(t, "rh_body")
    /\ op' = [op EXCEPT ![t] = "recordHistogram"]
    /\ UNCHANGED <<tmVars, name, cap, ret, stagedCap, measurements, measLock, histograms,
                   txn, calls, before, msg>>
    /\ UNCHANGED <<ghostVars, aggVars, queueVars>>

\* the body of the call, the deferred Unlock() and recover(), and the return
DirectRecordHistogramBody(t) ==
    /\ pc[t] = "rh_body"
    /\ histograms' = recordHistogram(histograms, span[t].Transaction, span[t].Duration)
    /\ histLock' = NoThread
    /\ sampled' = Sampled(span[t].Transaction, span[t].Duration)
    /\ drains' = Recording("histograms")
    /\ span' = [span EXCEPT ![t] = NoSpan]
    /\ Goto(t, "idle")
    /\ op' = [op EXCEPT ![t] = "idle"]
    /\ UNCHANGED <<tmVars, name, cap, ret, stagedCap, measurements, measLock,
                   txn, calls, before, msg, nSpans>>
    /\ UNCHANGED <<aggVars, audit, recorded, emitted, queueVars>>

NextHistograms ==
    \E t \in Recorders :
        \/ \E nm \in HistogramNames, d \in Durations : DirectRecordHistogram(t, nm, d)
        \/ DirectRecordHistogramBody(t)

InitHistograms ==
    /\ NewTransMap(metricsTransactionsMaxDefault)
    /\ stagedCap = metricsTransactionsMaxDefault
    /\ ThreadsIdle
    /\ TablesEmpty
    /\ History({"sampled"})

SpecHistograms == InitHistograms /\ [][NextHistograms]_vars

(***************************************************************************)
(* SpecFlush: a writer processes spans while the periodic thread           *)
(* generates metrics messages; the history of the recordings is kept.      *)
(***************************************************************************)
InitFlush ==
    /\ NewTransMap(metricsTransactionsMaxDefault)
    /\ stagedCap = metricsTransactionsMaxDefault
    /\ ThreadsIdle
    /\ TablesEmpty
    /\ History({"recorded", "sampled", "emitted"})

NextFlush ==
    \/ \E t \in Writers :
          \/ nSpans < MaxFlushSpans /\ \E s \in FlushSpans : CallProcess(t, s)
          \/ RecordHistogramBody(t)
          \/ ProcessAdmit(t)
          \/ IsWithinLimitBody(t)
          \/ IsWithinLimitReturn(t)
          \/ ProcessNamed(t)
          \/ ProcessNamedMeasurements(t)
          \/ PmPrimary(t)
          \/ PmMethod(t)
          \/ PmStatus(t)
          \/ PmReturn(t)
    \/ \E t \in Periodic :
          \/ StartFlush(t)
          \/ CrNumSent(t)
          \/ CrNumFailed(t)
          \/ CrTotalEvents(t)
          \/ CrNumOverflowed(t)
          \/ CrQueueLargest(t)
          \/ CopyAndResetReturn(t)
          \/ GmMeasurementsLock(t)
          \/ GmMeasurements(t)
          \/ GmHistogramsLock(t)
          \/ GmHistograms(t)
          \/ GmOverflow(t)
          \/ OverflowBody(t)
          \/ OverflowReturn(t)
          \/ GmReset(t)
          \/ ResetNames(t)
          \/ ResetCap(t)
          \/ ResetOverflow(t)
          \/ ResetReturn(t)
          \/ GmReturn(t)

SpecFlush == InitFlush /\ [][NextFlush]_vars

(***************************************************************************)
(* SpecDrain: as SpecFlush, with the history of the drains of each table   *)
(* in place of the history of the recordings.                              *)
(***************************************************************************)
InitDrain ==
    /\ NewTransMap(metricsTransactionsMaxDefault)
    /\ stagedCap = metricsTransactionsMaxDefault
    /\ ThreadsIdle
    /\ TablesEmpty
    /\ History({"drains"})

SpecDrain == InitDrain /\ [][NextFlush]_vars

(***************************************************************************)
(* Properties of the TransMap                                              *)
(***************************************************************************)
\* thread t takes the step that leads it from label a to label b
Step(t, a, b) == pc[t] = a /\ pc'[t] = b

\* C1: in every reachable state the number of registered transaction names is
\* at most the current capacity currCap.
C1_SizeWithinCap == Cardinality(transactionNames) <= currCap

\* a full map that has rejected a name
C1_Witness ==
    /\ currCap > 0
    /\ Cardinality(transactionNames) = currCap
    /\ overflow

\* C2: IsWithinLimit(name) has exactly three outcomes: a registered name returns
\* true and changes nothing; an unregistered name below the capacity is
\* registered and returns true with the overflow flag untouched; otherwise the
\* flag is set, false is returned and the set is unchanged.
C2_Outcome(t) ==
    \/ /\ name[t] \in transactionNames
       /\ ret'[t] = TRUE
       /\ transactionNames' = transactionNames
       /\ overflow' = overflow
    \/ /\ name[t] \notin transactionNames
       /\ Cardinality(transactionNames) < currCap
       /\ ret'[t] = TRUE
       /\ transactionNames' = transactionNames \cup {name[t]}
       /\ overflow' = overflow
    \/ /\ name[t] \notin transactionNames
       /\ Cardinality(transactionNames) >= currCap
       /\ ret'[t] = FALSE
       /\ transactionNames' = transactionNames
       /\ overflow' = TRUE

C2_ThreeOutcomes ==
    [][\A t \in Threads : Step(t, "iwl_body", "iwl_ret") => C2_Outcome(t)]_vars

\* capacity 3, t1, t2, t3 registered, a fourth name rejected, and t2 admitted again
C2_Witness ==
    /\ currCap = 3
    /\ transactionNames = {sT1, sT2, sT3}
    /\ overflow
    /\ \E t \in Threads : pc[t] = "iwl_ret" /\ name[t] = sT2 /\ ret[t]

\* C3: once the overflow flag is true it stays true until the next Reset: only
\* the assignment of Reset changes it from true to false.
C3_OverflowSticky ==
    [][(overflow /\ ~overflow') => \E t \in Threads : Step(t, "reset_ovf", "reset_ret")]_vars

\* a call that found its name registered has returned true while the flag was set
C3_Witness ==
    /\ overflow
    /\ \E t \in Threads : pc[t] = "iwl_ret" /\ ret[t]

\* C4: SetCap(n) changes only nextCap; currCap, the registered set and the overflow
\* flag are unchanged, and the assignment of the next Reset makes currCap the
\* argument of the most recent SetCap (the capacity at construction if there was none).
C4_SetCapStaged ==
    [][/\ \A t \in Threads :
            /\ Step(t, "setcap_body", "setcap_ret") =>
                  /\ nextCap' = cap[t]
                  /\ UNCHANGED <<currCap, transactionNames, overflow>>
            /\ Step(t, "reset_cap", "reset_ovf") => currCap' = stagedCap
       /\ currCap' # currCap => \E t \in Threads : Step(t, "reset_cap", "reset_ovf")]_vars

\* a SetCap has staged a capacity smaller than the number of names registered
C4_Witness ==
    /\ \E t \in Threads : pc[t] = "setcap_ret"
    /\ nextCap # currCap
    /\ Cardinality(transactionNames) > nextCap

\* C5: Reset is atomic: when it has made its three assignments the set is empty,
\* currCap equals nextCap and the overflow flag is false, and while only some of
\* them are made no other thread is inside a method of the TransMap.
ResetPartial == {"reset_cap", "reset_ovf"}
InsideTransMap ==
    {"iwl_body", "iwl_ret", "setcap_body", "setcap_ret", "ovf_body", "ovf_ret",
     "reset_names", "reset_cap", "reset_ovf", "reset_ret"}

C5_ResetAtomic ==
    \A t \in Threads :
        /\ pc[t] = "reset_ret" =>
              /\ transactionNames = {}
              /\ currCap = nextCap
              /\ overflow = FALSE
        /\ pc[t] \in ResetPartial =>
              \A u \in Threads \ {t} : pc[u] \notin InsideTransMap

\* a Reset that empties a map with names, changes the capacity and clears the flag
\* has made its first assignment only
C5_Witness ==
    \E t \in Threads :
        /\ pc[t] = "reset_cap"
        /\ transactionNames = {}
        /\ currCap # nextCap
        /\ overflow


(***************************************************************************)
(* Properties of the processing of a span                                  *)
(***************************************************************************)
\* the labels at which a thread is inside processMeasurements
PmLabels == {"pm_primary", "pm_method", "pm_status", "pm_error", "pm_ret"}

\* the entries of the measurements that processMeasurements of thread t has created or changed
Touched(t) ==
    {id \in DOMAIN measurements : id \notin DOMAIN before[t] \/ measurements[id] # before[t][id]}

\* the TransactionName tag process() has to use for the span of thread t
Classified(t) ==
    IF span[t].Transaction = UnknownTransactionName THEN UnknownTransactionName
    ELSE IF ret[t] THEN span[t].Transaction
    ELSE OtherTransactionName

C7_MissingNameIsUnknown ==
    /\ sEmpty \notin transactionNames
    /\ \A t \in Threads :
          (op[t] = "process" /\ span[t].Transaction = sEmpty) =>
             /\ calls[t] = 0
             /\ pc[t] \in PmLabels =>
                   /\ txn[t] = UnknownTransactionName
                   /\ \A id \in Touched(t) :
                         measurements[id].Tags[sTransactionName] = UnknownTransactionName


\* the number of samples of the histogram named n in the table h
SamplesOf(h, n) == IF n \in DOMAIN h THEN h[n].hist ELSE 0

\* the step adds k samples to the histogram named n, and none to any other histogram
AddsSamples(n, k) ==
    \A m \in DOMAIN histograms \cup DOMAIN histograms' \cup {n} :
        SamplesOf(histograms', m) = SamplesOf(histograms, m) + (IF m = n THEN k ELSE 0)

\* the duration of the span s is within the range of the histograms
InRange(s) == ~RecordPanics(ToMicroseconds(s.Duration))

\* C8: a processed span with an in-range duration adds exactly one sample to the
\* global histogram (name ""), and one sample to the histogram of its own name if
\* and only if the registry admitted the name; a span classified as other or unknown
\* adds no sample to a per-transaction histogram.
C8_HistogramSamples ==
    [][\A t \in Threads :
         (op[t] = "process" /\ pc'[t] # pc[t] /\ InRange(span[t])) =>
            CASE pc[t] = "h0_body" -> AddsSamples(sEmpty, 1)
              [] pc[t] = "p_admit" ->
                    /\ AddsSamples(sEmpty, 0)
                    /\ span[t].Transaction = UnknownTransactionName => pc'[t] = "pm_primary"
              [] pc[t] = "p_branch" ->
                    /\ AddsSamples(sEmpty, 0)
                    /\ pc'[t] = IF ret[t] THEN "h1_body" ELSE "pm_primary"
              [] pc[t] = "h1_body" ->
                    /\ ret[t]
                    /\ AddsSamples(span[t].Transaction, 1)
                    /\ SamplesOf(histograms', sEmpty) = SamplesOf(histograms, sEmpty)
              [] OTHER -> AddsSamples(sEmpty, 0)]_vars


(***************************************************************************)
(* Properties of the table of measurements                                 *)
(***************************************************************************)
\* the tag maps of the series processMeasurements of thread t has to record
ExpectedSeries(t) ==
    {primaryTags(txn[t]), withMethodTags(txn[t], span[t]), withStatusTags(txn[t], span[t])}
        \cup (IF span[t].HasError THEN {withErrorTags(txn[t])} ELSE {})

\* the entry with the key id in the table me, or the entry recordMeasurement would create
EntryBefore(me, id, m) ==
    IF id \in DOMAIN me THEN me[id] ELSE [m EXCEPT !.Count = 0, !.Sum = WideZero]

\* C9: processMeasurements(transactionName) adds count 1 and the duration of the
\* span to exactly the series {TransactionName}, {TransactionName, HttpMethod},
\* {TransactionName, HttpStatus}, and {TransactionName, Errors=true} if and only if
\* HasError is set, of the metric TransactionResponseTime with reportSum true; it
\* creates or changes no other entry.
C9_FanOut ==
    \A t \in Threads :
        pc[t] = "pm_ret" =>
           /\ DOMAIN before[t] \subseteq DOMAIN measurements
           /\ Cardinality(Touched(t)) = Cardinality(ExpectedSeries(t))
           /\ \A tags \in ExpectedSeries(t) :
                 \E id \in Touched(t) :
                    LET m == measurements[id]
                        old == EntryBefore(before[t], id, m)
                    IN  /\ m.Name = sTransactionResponseTime
                        /\ m.ReportSum
                        /\ m.Tags = tags
                        /\ m.Count = old.Count + 1
                        /\ m.Sum = WideAdd(old.Sum, span[t].Duration)

\* a span with an error has recorded its four series in a table that held one of
\* them, and an entry the span does not touch
C9_Witness ==
    \E t \in Threads :
        /\ pc[t] = "pm_ret"
        /\ span[t].HasError
        /\ Cardinality(Touched(t)) = 4
        /\ \E id \in Touched(t) : id \in DOMAIN before[t]
        /\ \E id \in DOMAIN before[t] : id \notin Touched(t)

\* the entries a and b are observations of one series
SameSeries(a, b) == a.Name = b.Name /\ a.ReportSum = b.ReportSum /\ a.Tags = b.Tags

\* C10: recordMeasurement computes the same identity for a metric name, a
\* reportSum flag and a tag map whatever the order in which the map is visited,
\* and so adds the count and the sum of an observation to the entry of its series
\* and creates no second entry for it.
C10_OrderIndependentIdentity ==
    [][measurements' # measurements =>
         \E id \in DOMAIN measurements' :
            LET m == measurements'[id]
                old == EntryBefore(measurements, id, m)
            IN  /\ DOMAIN measurements' = DOMAIN measurements \cup {id}
                /\ \A j \in DOMAIN measurements \ {id} : measurements'[j] = measurements[j]
                /\ \A o \in RangeOrders(m.Tags) :
                      MeasurementID(m.Name, m.Tags, o, m.ReportSum) = id
                /\ \A j \in DOMAIN measurements : SameSeries(measurements[j], m) => j = id
                /\ m.Count = old.Count + 1
                /\ \E d \in Durations : m.Sum = WideAdd(old.Sum, d)]_vars

\* two observations of the series of TestRecordMeasurement are in one entry
C10_Witness ==
    /\ Cardinality(DOMAIN measurements) = 1
    /\ \E id \in DOMAIN measurements :
          /\ measurements[id].Name = sName1
          /\ measurements[id].Tags = (sT1 :> sTag1) @@ (sT2 :> sTag2)
          /\ measurements[id].Count = 2


(***************************************************************************)
(* Properties of concurrent recording and draining                         *)
(***************************************************************************)
\* the observations of the history that belong to the series of the entry m
ObservationsOf(m) == {o \in BagToSet(recorded) : SameSeries(o, m)}

\* the sum of the count increments of the observations in the set obs of the history
RECURSIVE CountOf(_)
CountOf(obs) ==
    IF obs = {} THEN 0
    ELSE LET o == CHOOSE x \in obs : TRUE
         IN  CopiesIn(o, recorded) * o.Count + CountOf(obs \ {o})

\* k times the value d
RECURSIVE WideTimes(_, _)
WideTimes(d, k) == IF k = 0 THEN WideZero ELSE WideAdd(d, WideTimes(d, k - 1))

\* the sum of the values of the observations in the set obs of the history
RECURSIVE SumOf(_)
SumOf(obs) ==
    IF obs = {} THEN WideZero
    ELSE LET o == CHOOSE x \in obs : TRUE
         IN  WideAdd(WideTimes(o.Value, CopiesIn(o, recorded)), SumOf(obs \ {o}))

\* C11: with no flush, the table of measurements is determined by the multiset of
\* the recordings the concurrent threads have executed, whatever their
\* interleaving: the recordings of two threads never overlap, every series
\* recorded has one entry, and the count and the sum of an entry are the sums of
\* the count increments and of the values recorded for it.
C11_NoLostUpdate ==
    /\ \A t \in Threads : pc[t] \in PmLabels => measLock = t
    /\ \A id \in DOMAIN measurements :
          /\ measurements[id].Count = CountOf(ObservationsOf(measurements[id]))
          /\ measurements[id].Sum = SumOf(ObservationsOf(measurements[id]))
          /\ \A j \in DOMAIN measurements : SameSeries(measurements[j], measurements[id]) => j = id
    /\ \A o \in BagToSet(recorded) : \E id \in DOMAIN measurements : SameSeries(measurements[id], o)

\* one thread is inside processMeasurements for a series that another recording has
\* given a different value, and the entry holds both
C11_Witness ==
    /\ pc["w2"] = "pm_ret"
    /\ \E id \in DOMAIN before["w2"] :
          /\ measurements[id].Count = 2
          /\ measurements[id].Sum = WideAdd(Dur(3600, 999), Dur(3600, 1000))


\* the element e of a "measurements" array is that of the series of the observation o
ElementOf(e, o) ==
    /\ e.name = o.Name
    /\ e.tags = TagsToBSON(o.Tags)
    /\ (e.sum # <<>>) = o.ReportSum

\* the sum of the counts of the elements in the set es, each taken as often as it
\* is in the bag b
RECURSIVE ElementCounts(_, _)
ElementCounts(b, es) ==
    IF es = {} THEN 0
    ELSE LET e == CHOOSE x \in es : TRUE
         IN  CopiesIn(e, b) * e.count + ElementCounts(b, es \ {e})

\* the sum of the sums of the elements in the set es, each taken as often as it is
\* in the bag b
RECURSIVE ElementSums(_, _)
ElementSums(b, es) ==
    IF es = {} THEN WideZero
    ELSE LET e == CHOOSE x \in es : TRUE
         IN  WideAdd(WideTimes(e.sum[1], CopiesIn(e, b)), ElementSums(b, es \ {e}))

\* the "measurements" arrays of all the messages: those generated so far and those
\* that are being generated
AllMeasurements ==
    LET RECURSIVE Sum(_)
        Sum(ts) == IF ts = {} THEN emitted.measurements
                   ELSE LET t == CHOOSE x \in ts : TRUE
                        IN  msg[t].measurements (+) Sum(ts \ {t})
    IN  Sum(Threads)

\* the "histograms" arrays of all the messages
AllHistograms ==
    LET RECURSIVE Sum(_)
        Sum(ts) == IF ts = {} THEN emitted.histograms
                   ELSE LET t == CHOOSE x \in ts : TRUE
                        IN  msg[t].histograms (+) Sum(ts \ {t})
    IN  Sum(Threads)

\* the count and the sum the table of measurements holds for the series of o
TableCount(o) ==
    LET ids == {id \in DOMAIN measurements : SameSeries(measurements[id], o)}
    IN  IF ids = {} THEN [Count |-> 0, Sum |-> WideZero]
        ELSE LET m == measurements[CHOOSE id \in ids : TRUE]
             IN  [Count |-> m.Count, Sum |-> m.Sum]

\* the tags recordHistogram gives the histogram named nm
HistogramTags(nm) == IF nm # sEmpty THEN (sTransactionName :> nm) ELSE EmptyMap

\* the number of the calls of recordHistogram for the name nm whose value Record accepts
InRangeCalls(nm) ==
    LET cs == {c \in BagToSet(sampled) :
                  c.Name = nm /\ ~RecordPanics(ToMicroseconds(c.Duration))}
        RECURSIVE Sum(_)
        Sum(s) == IF s = {} THEN 0
                  ELSE LET c == CHOOSE x \in s : TRUE
                       IN  CopiesIn(c, sampled) + Sum(s \ {c})
    IN  Sum(cs)

\* the number of samples the histograms named nm hold in the arrays of the bag b
EmittedSamples(b, nm) ==
    LET es == {e \in BagToSet(b) : e.tags = TagsToBSON(HistogramTags(nm))}
        RECURSIVE Sum(_)
        Sum(s) == IF s = {} THEN 0
                  ELSE LET e == CHOOSE x \in s : TRUE
                       IN  CopiesIn(e, b) * e.value + Sum(s \ {e})
    IN  Sum(es)

\* the series of the observations of the history
RecordedSeries ==
    {[Name |-> o.Name, Tags |-> o.Tags, ReportSum |-> o.ReportSum] : o \in BagToSet(recorded)}

\* every observation recorded is in exactly one place: a message or the table
C12_Conserved ==
    LET am == AllMeasurements
        ah == AllHistograms
    IN  /\ \A o \in RecordedSeries :
              LET es == {e \in BagToSet(am) : ElementOf(e, o)}
                  tc == TableCount(o)
                  os == ObservationsOf(o)
              IN  /\ CountOf(os) = ElementCounts(am, es) + tc.Count
                  /\ o.ReportSum => SumOf(os) = WideAdd(ElementSums(am, es), tc.Sum)
        /\ \A nm \in {c.Name : c \in BagToSet(sampled)} :
              InRangeCalls(nm) = EmittedSamples(ah, nm) + SamplesOf(histograms, nm)

\* the step in which generateMetricsMessage copies a table and unlocks it leaves the
\* table empty, with the entries it held in the message
C12_Drained ==
    \A t \in Threads :
        /\ Step(t, "gm_meas_body", "gm_hist") =>
              /\ measurements' = EmptyMap
              /\ measLock' = NoThread
              /\ msg'[t].measurements = MeasurementsArray(measurements)
        /\ Step(t, "gm_hist_body", "gm_overflow") =>
              /\ histograms' = EmptyMap
              /\ histLock' = NoThread
              /\ msg'[t].histograms = HistogramsArray(histograms)

\* C12: while spans are processed and metrics messages generated in any
\* interleaving, every observation recorded is emitted exactly once: for each
\* series the counts (and sums) in all the messages plus those still in the table
\* are the counts (and sums) recorded, a table is empty right after the flush has
\* copied and unlocked it, and the in-range samples of each histogram are those in
\* the messages plus those in the table.
C12_EmittedExactlyOnce == []C12_Conserved /\ [][C12_Drained]_vars

\* two spans of one series have been recorded, the first is in a message generated
\* earlier and the second is in the table
C12_Witness ==
    /\ \E o \in BagToSet(recorded) :
          /\ CountOf(ObservationsOf(o)) = 2
          /\ ElementCounts(emitted.measurements,
                           {e \in BagToSet(emitted.measurements) : ElementOf(e, o)}) = 1
          /\ TableCount(o).Count = 1
    /\ EmittedSamples(emitted.histograms, sT1) = 1
    /\ SamplesOf(histograms, sT1) = 1


\* the tables generateMetricsMessage drains
Tables == {"measurements", "histograms"}

\* C13: when a table that holds entries is drained repeatedly with no recording
\* in between, the first drain returns the entries and the second drain, like
\* every later one, returns an empty collection.
C13_SecondDrainIsEmpty ==
    \A tab \in Tables : \A i \in 2 .. Len(drains[tab]) : drains[tab][i] = 0

\* the statement that the second of the drains returns entries and the third
\* returns none
C13_SecondDrainReturnsEntries ==
    \A tab \in Tables :
        (Len(drains[tab]) >= 3 /\ drains[tab][1] > 0) =>
            (drains[tab][2] > 0 /\ drains[tab][3] = 0)

\* each table has been drained three times in a row after entries were recorded in
\* it: the first drain returned them, the second and the third returned nothing
C13_Witness ==
    \A tab \in Tables :
        /\ Len(drains[tab]) = 3
        /\ drains[tab][1] > 0
        /\ drains[tab][2] = 0
        /\ drains[tab][3] = 0


\* the number of the calls of recordHistogram for the name nm
CallsOf(nm) ==
    LET cs == {c \in BagToSet(sampled) : c.Name = nm}
        RECURSIVE Sum(_)
        Sum(s) == IF s = {} THEN 0
                  ELSE LET c == CHOOSE x \in s : TRUE
                       IN  CopiesIn(c, sampled) + Sum(s \ {c})
    IN  Sum(cs)

\* the number of the calls of recordHistogram for the name nm whose value makes
\* Record panic
OutOfRangeCalls(nm) ==
    LET cs == {c \in BagToSet(sampled) :
                  c.Name = nm /\ RecordPanics(ToMicroseconds(c.Duration))}
        RECURSIVE Sum(_)
        Sum(s) == IF s = {} THEN 0
                  ELSE LET c == CHOOSE x \in s : TRUE
                       IN  CopiesIn(c, sampled) + Sum(s \ {c})
    IN  Sum(cs)

\* C14: after N calls of recordHistogram for one name with no flush, the histogram
\* of the name holds N samples less the number of the calls whose duration is
\* above the ceiling of 3 600 000 000 microseconds: no in-range call is dropped
\* and no out-of-range call is counted.
C14_SamplesAreInRangeCalls ==
    \A nm \in HistogramNames :
        /\ SamplesOf(histograms, nm) = CallsOf(nm) - OutOfRangeCalls(nm)
        /\ nm \in DOMAIN histograms <=> CallsOf(nm) > 0

\* recordHistogram has been called twice for one name, once with a duration above
\* the ceiling, and the histogram of the name holds one sample
C14_Witness ==
    /\ CallsOf(sT1) = 2
    /\ OutOfRangeCalls(sT1) = 1
    /\ SamplesOf(histograms, sT1) = 1


\* C15: a recordHistogram call of process() whose duration is above the ceiling
\* returns to process() as a successful call does (to the admission after the
\* first call, to processMeasurements after the second) with the lock of the
\* histograms released, leaves every histogram as it was but for the entry of its
\* own name, which gets no sample; and the span then goes through the admission of
\* its name and records its measurements before process() returns.
C15_OutOfRangeIsRecovered ==
    [][\A t \in Threads :
         (op[t] = "process" /\ pc'[t] # pc[t] /\ ~InRange(span[t])) =>
            /\ pc[t] = "h0_body" =>
                  /\ pc'[t] = "p_admit"
                  /\ histLock' = NoThread
                  /\ AddsSamples(sEmpty, 0)
                  /\ \A n \in DOMAIN histograms :
                        n \in DOMAIN histograms' /\ histograms'[n] = histograms[n]
            /\ pc[t] = "h1_body" =>
                  /\ pc'[t] = "p_meas"
                  /\ histLock' = NoThread
                  /\ AddsSamples(span[t].Transaction, 0)
                  /\ \A n \in DOMAIN histograms :
                        n \in DOMAIN histograms' /\ histograms'[n] = histograms[n]
            /\ pc[t] = "pm_ret" =>
                  /\ pc'[t] = "idle"
                  /\ calls[t] = 1
                  /\ Touched(t) # {}
                  /\ \A id \in Touched(t) :
                        measurements[id].Tags[sTransactionName] = Classified(t)]_vars

\* a span with a duration above the ceiling, processed after a span whose sample
\* its histogram still holds, has been admitted and has recorded
\* its measurements
C15_Witness ==
    \E t \in Threads :
        /\ pc[t] = "pm_ret"
        /\ ~InRange(span[t])
        /\ ret[t]
        /\ Touched(t) # {}
        /\ SamplesOf(histograms, sT1) = 1
        /\ CallsOf(sT1) = 2


(***************************************************************************)
(* Properties of the queue statistics                                      *)
(***************************************************************************)
\* the sum of the totalEvents that the copyAndReset calls in progress have swapped out
RECURSIVE SwappedOut(_)
SwappedOut(ts) ==
    IF ts = {} THEN 0
    ELSE LET t == CHOOSE x \in ts : TRUE
         IN  copy[t].totalEvents + SwappedOut(ts \ {t})

\* C16: no increment of totalEvents is lost: the totalEvents returned by all the
\* copyAndReset calls, those swapped out by the calls in progress and the value
\* left in the counter sum to the number of increments, so a copyAndReset that
\* runs after all the increments of the threads, and after no other, returns their
\* number; and when no counter was written since a copyAndReset was called, every
\* counter is zero when it returns.
C16_NoLostIncrement ==
    /\ returned + SwappedOut(Threads) + queueStats.totalEvents = incremented
    /\ \A t \in Threads :
          pc[t] = "cr_ret" =>
             /\ (returned = 0 /\ queueStats.totalEvents = 0) => copy[t].totalEvents = incremented
             /\ quiet[t] => queueStats = ZeroStats

\* two threads have incremented totalEvents twice each, and the one copyAndReset
\* that ran, after all of them, is about to return 4
C16_Witness ==
    \E t \in Threads :
        /\ pc[t] = "cr_ret"
        /\ quiet[t]
        /\ incremented = 4
        /\ returned = 0
        /\ copy[t].totalEvents = 4
        /\ copy[t].numSent = 4


\* C17: queueLargest decreases only when copyAndReset swaps it; whenever no
\* setQueueLargest call is in progress, and none was when queueLargest was last
\* swapped, queueLargest is the largest of the values passed since then (zero if
\* none was); and the compare-and-swap of a call fails only when another thread
\* has changed queueLargest since the call loaded it, so that a call running alone
\* returns after at most one retry.
C17_HighWaterMark ==
    [][/\ queueStats'.queueLargest < queueStats.queueLargest =>
             \E t \in Threads : Step(t, "cr_largest", "cr_ret")
       /\ (highest' >= 0 /\ \A t \in Threads : pc'[t] \notin SqlLabels) =>
             queueStats'.queueLargest = highest'
       /\ \A t \in Threads :
             /\ Step(t, "sql_load", "sql_cas") =>
                   /\ currVal'[t] = queueStats.queueLargest
                   /\ newVal[t] > currVal'[t]
             /\ Step(t, "sql_load", "idle") => newVal[t] <= queueStats.queueLargest
             /\ Step(t, "sql_cas", "sql_load") => queueStats.queueLargest # currVal[t]
             /\ Step(t, "sql_cas", "idle") =>
                   /\ queueStats.queueLargest = currVal[t]
                   /\ queueStats'.queueLargest = newVal[t]]_vars

\* two calls race: both have loaded 0, the call that passed the larger value has
\* stored it and returned, and the call that passed the smaller value is about to
\* compare and swap
C17_Witness ==
    /\ pc["w1"] = "sql_cas"
    /\ newVal["w1"] = 1
    /\ currVal["w1"] = 0
    /\ pc["w2"] = "idle"
    /\ highest = 2
    /\ queueStats.queueLargest = 2


IsPrefix(s, q) == Len(s) <= Len(q) /\ s = SubSeq(q, 1, Len(s))

\* the parts of a message in the order generateMetricsMessage appends them
MessageOrder == <<"queueStats", "measurements", "histograms", "TransactionNameOverflow">>

\* the order of the drain steps as 'counter table, histogram table, queue
\* statistics, overflow flag'
StatedOrder == <<"measurements", "histograms", "queueStats", "TransactionNameOverflow">>

\* thread t resets the registry
ResetsRegistry(t) ==
    /\ op[t] = "flush"
    /\ pc[t] \in {"reset_names", "reset_cap", "reset_ovf"}
    /\ pc'[t] # pc[t]

\* C19: within one generateMetricsMessage call the queue statistics are read and
\* reset first, then the counter table is copied and cleared, then the histogram
\* table is copied and cleared, then the overflow flag of the registry is read,
\* and the registry is reset last.
C19_DrainOrder ==
    [][\A t \in Threads :
          /\ IsPrefix(msg'[t].order, MessageOrder)
          /\ pc[t] \in CrLabels /\ pc'[t] # pc[t] /\ op[t] = "flush" =>
                msg[t].order = <<>>
          /\ measurements' = EmptyMap /\ Step(t, "gm_meas_body", "gm_hist") =>
                msg[t].order = SubSeq(MessageOrder, 1, 1)
          /\ histograms' = EmptyMap /\ Step(t, "gm_hist_body", "gm_overflow") =>
                msg[t].order = SubSeq(MessageOrder, 1, 2)
          /\ Step(t, "ovf_body", "ovf_ret") /\ op[t] = "flush" =>
                msg[t].order = SubSeq(MessageOrder, 1, 3)
          /\ ResetsRegistry(t) => msg[t].order = MessageOrder]_vars

\* the order of the claim: the tables are drained before the queue statistics are
\* read and reset
C19_StatedOrder ==
    [][\A t \in Threads : IsPrefix(msg'[t].order, StatedOrder)]_vars

\* the registry holds a name and the flush is about to reset it, after the four
\* parts of the message
C19_Witness ==
    \E t \in Threads :
        /\ op[t] = "flush"
        /\ pc[t] = "reset_names"
        /\ transactionNames # {}
        /\ msg[t].order = MessageOrder
        /\ msg[t].measurements # EmptyBag
        /\ msg[t].histograms # EmptyBag


(***************************************************************************)
(* Properties of the locks                                                 *)
(***************************************************************************)
\* the locks thread t holds: those of the two tables and the mutex of the registry
Holds(t) ==
    {l \in {"measurements", "histograms", "mTransMap"} :
        t = (CASE l = "measurements" -> measLock
               [] l = "histograms" -> histLock
               [] l = "mTransMap" -> mutex)}

\* thread t is about to call Lock() of the histograms: at the start of process(),
\* before the second recordHistogram call, or in generateMetricsMessage
WaitsForHistograms(t) ==
    \/ t \in Writers /\ pc[t] = "idle" /\ nSpans < MaxFlushSpans
    \/ pc[t] = "p_branch" /\ ret[t]
    \/ pc[t] = "gm_hist"

\* the steps of NextFlush that a thread takes between a Lock() and the Unlock()
\* that follows it
StepUnderLock(t) ==
    \/ RecordHistogramBody(t)
    \/ IsWithinLimitBody(t)
    \/ IsWithinLimitReturn(t)
    \/ PmPrimary(t)
    \/ PmMethod(t)
    \/ PmStatus(t)
    \/ PmReturn(t)
    \/ GmMeasurements(t)
    \/ GmHistograms(t)
    \/ OverflowBody(t)
    \/ OverflowReturn(t)
    \/ ResetNames(t)
    \/ ResetCap(t)
    \/ ResetOverflow(t)
    \/ ResetReturn(t)

\* the steps of NextFlush in which a thread locks the histograms
LocksHistograms(t) ==
    \/ \E s \in FlushSpans : CallProcess(t, s)
    \/ ProcessNamed(t)
    \/ GmHistogramsLock(t)

\* C20: no thread holds two of the lock of the measurements, the lock of the
\* histograms and the mutex of the registry; a thread that holds one of them can
\* always take its next step, so no deadlock among the locks is reachable; and a
\* thread that is about to lock the histograms gets the lock whenever no thread
\* holds it, whoever holds the lock of the measurements.
C20_LocksAreNotNested ==
    \A t \in Threads :
        /\ Cardinality(Holds(t)) <= 1
        /\ Holds(t) # {} => ENABLED StepUnderLock(t)
        /\ (WaitsForHistograms(t) /\ histLock = NoThread) => ENABLED LocksHistograms(t)

\* the flush holds the lock of the measurements while a writer is about to lock
\* the histograms for its second recordHistogram call, which it can do
C20_Witness ==
    /\ measLock = "p"
    /\ histLock = NoThread
    /\ pc["w1"] = "p_branch"
    /\ ret["w1"]
    /\ ENABLED ProcessNamed("w1")


\* C21: when no span is processed during the flush, the message carries
\* TransactionNameOverflow = true if and only if the overflow flag of the registry
\* is set, which it is only since a name was rejected after the previous reset;
\* and when generateMetricsMessage returns the registry is empty and its flag is
\* false, so that the next message carries the field only after another rejection.
C21_OverflowReported ==
    [][\A t \in Threads :
          /\ (overflow' /\ ~overflow) => \E w \in Threads : Step(w, "iwl_body", "iwl_ret") /\ ~ret'[w]
          /\ Step(t, "gm_overflow_if", "reset_names") =>
                msg'[t].TransactionNameOverflow = overflow
          /\ Step(t, "gm_done", "idle") =>
                /\ transactionNames = {}
                /\ ~overflow]_vars

\* the registry has rejected a name and the message of the flush that follows
\* carries TransactionNameOverflow = true, the registry being reset
C21_Witness ==
    \E t \in Threads :
        /\ pc[t] = "gm_done"
        /\ msg[t].TransactionNameOverflow
        /\ transactionNames = {}
        /\ ~overflow

(***************************************************************************)
(* GetTransactionFromPath                                                  *)
(***************************************************************************)
Slash == 47
maxPathLenForTransactionName == 3

\* "/a/b/c/d#frag" and "/a/b"
sPathABCD == <<47, 97, 47, 98, 47, 99, 47, 100, 35, 102, 114, 97, 103>>
sPathAB == <<47, 97, 47, 98>>

\* the paths passed to GetTransactionFromPath: the strings of "/" and "a" of at most
\* MaxPathLen bytes, and "/a/b/c/d#frag"
MaxPathLen == 8
PathBytes == {Slash, 97}
Paths == UNION {[1..n -> PathBytes] : n \in 0..MaxPathLen} \cup {sPathABCD}

\* strings.Split(s, "/")
RECURSIVE Split(_)
Split(s) ==
    IF \A i \in DOMAIN s : s[i] # Slash THEN <<s>>
    ELSE LET i == CHOOSE k \in DOMAIN s : s[k] = Slash /\ \A j \in 1..(k - 1) : s[j] # Slash
         IN  <<SubSeq(s, 1, i - 1)>> \o Split(SubSeq(s, i + 1, Len(s)))

\* strings.Join(p, "/")
RECURSIVE Join(_)
Join(p) ==
    IF p = <<>> THEN <<>>
    ELSE IF Len(p) = 1 THEN p[1]
    ELSE p[1] \o <<Slash>> \o Join(Tail(p))

\* the same function without the case of the paths "" and "/"
GetTransactionFromPathNoRoot(path) ==
    LET p  == Split(path)
        lp == IF Len(p) > maxPathLenForTransactionName
              THEN maxPathLenForTransactionName ELSE Len(p)
    IN  Join(SubSeq(p, 1, lp))


\* the same function without the limit on the number of elements
GetTransactionFromPathWhole(path) ==
    IF path = sEmpty \/ path = <<Slash>> THEN <<Slash>> ELSE Join(Split(path))

\* GetTransactionFromPath(path)
GetTransactionFromPath(path) ==
    IF path = sEmpty \/ path = <<Slash>> THEN <<Slash>>
    ELSE LET p  == Split(path)
             lp == IF Len(p) > maxPathLenForTransactionName
                   THEN maxPathLenForTransactionName ELSE Len(p)
         IN  Join(SubSeq(p, 1, lp))

\* thread t calls GetTransactionFromPath(path) and holds its result
CallGetTransactionFromPath(t, path) ==
    /\ pc[t] = "idle"
    /\ Goto(t, "gtp_ret")
    /\ op' = [op EXCEPT ![t] = "GetTransactionFromPath"]
    /\ name' = [name EXCEPT ![t] = path]
    /\ txn' = [txn EXCEPT ![t] = GetTransactionFromPath(path)]
    /\ UNCHANGED <<tmVars, cap, ret, stagedCap, tableVars, span, calls, before, msg, nSpans>>
    /\ UNCHANGED <<ghostVars, aggVars, queueVars>>

GetTransactionFromPathReturn(t) ==
    /\ pc[t] = "gtp_ret"
    /\ Goto(t, "idle")
    /\ op' = [op EXCEPT ![t] = "idle"]
    /\ name' = [name EXCEPT ![t] = sEmpty]
    /\ txn' = [txn EXCEPT ![t] = sEmpty]
    /\ UNCHANGED <<tmVars, cap, ret, stagedCap, tableVars, span, calls, before, msg, nSpans>>
    /\ UNCHANGED <<ghostVars, aggVars, queueVars>>

(***************************************************************************)
(* SpecPath: a thread calls GetTransactionFromPath with any of the paths.  *)
(***************************************************************************)
NextPath ==
    \E t \in Writers :
        \/ \E path \in Paths : CallGetTransactionFromPath(t, path)
        \/ GetTransactionFromPathReturn(t)

SpecPath == Init /\ [][NextPath]_vars

(***************************************************************************)
(* Properties of GetTransactionFromPath                                    *)
(***************************************************************************)
\* the part of path before its n-th "/", or all of it if it has fewer than n
BeforeSlash(path, n) ==
    LET at == {i \in DOMAIN path :
                  path[i] = Slash /\ Cardinality({j \in 1..i : path[j] = Slash}) = n}
    IN  IF at = {} THEN path ELSE SubSeq(path, 1, (CHOOSE i \in at : TRUE) - 1)

\* C22 (amended): GetTransactionFromPath maps "" and "/" to "/", and any other
\* path to its part before its third "/" (all of it if it has fewer than three),
\* that is the first 3 elements of its split at "/", the first of which is empty
\* when the path starts with "/"; so "/a/b/c/d#frag" yields "/a/b".
C22_FirstThreeElements ==
    \A t \in Threads :
        pc[t] = "gtp_ret" =>
            /\ txn[t] = IF name[t] \in {sEmpty, <<Slash>>} THEN <<Slash>>
                        ELSE BeforeSlash(name[t], 3)
            /\ name[t] = sPathABCD => txn[t] = sPathAB

\* C22 (as stated): the result for a path other than "" and "/" is its first 3
\* path segments, so that "/a/b/c/d#frag" yields "/a/b/c".
C22_FirstThreeSegments ==
    \A t \in Threads :
        pc[t] = "gtp_ret" =>
            txn[t] = IF name[t] \in {sEmpty, <<Slash>>} THEN <<Slash>>
                     ELSE IF Head(name[t]) = Slash THEN BeforeSlash(name[t], 4)
                     ELSE BeforeSlash(name[t], 3)

C22_Witness ==
    \E t \in Threads : pc[t] = "gtp_ret" /\ name[t] = sPathABCD /\ txn[t] = sPathAB

(***************************************************************************)
(* SpecTags: measurements and histograms with tags of any length are       *)
(* recorded by a writer while the periodic thread generates messages       *)
(* (TestAddMeasurementToBSON and TestAddHistogramToBSON use a tag name of  *)
(* more than 64 bytes and a value of more than 255).                       *)
(***************************************************************************)
\* the string of n bytes "A"
Repeat(n) == [i \in 1..n |-> 65]

\* the longest tag name and the longest tag value of the inputs
MaxTagNameLen == 70
MaxTagValueLen == 300

\* at most MaxTagged recordings are made
MaxTagged == 1

\* tag names and values at, around and beyond the limits
TagNames ==
    {Repeat(n) : n \in {1, metricsTagNameLenghtMax, metricsTagNameLenghtMax + 1, MaxTagNameLen}}
TagValues ==
    {Repeat(n) : n \in {1, metricsTagValueLenghtMax, metricsTagValueLenghtMax + 1, MaxTagValueLen}}

\* the tag maps recorded: one tag of any name and value, and two tags whose names
\* have the same first metricsTagNameLenghtMax bytes
LongTagMaps ==
    {k :> v : k \in TagNames, v \in TagValues}
        \cup {(Repeat(metricsTagNameLenghtMax + 1) :> v) @@ (Repeat(MaxTagNameLen) :> v) :
                 v \in TagValues}

NextTags ==
    \/ \E t \in Writers :
          \/ /\ nSpans < MaxTagged
             /\ \E tags \in LongTagMaps, d \in Durations :
                   DirectRecordMeasurement(t, sName1, tags, d, TRUE)
          \/ /\ nSpans < MaxTagged
             /\ \E nm \in TagValues, d \in Durations : DirectRecordHistogram(t, nm, d)
          \/ DirectRecordHistogramBody(t)
    \/ \E t \in Periodic :
          \/ StartFlush(t)
          \/ CrNumSent(t)
          \/ CrNumFailed(t)
          \/ CrTotalEvents(t)
          \/ CrNumOverflowed(t)
          \/ CrQueueLargest(t)
          \/ CopyAndResetReturn(t)
          \/ GmMeasurementsLock(t)
          \/ GmMeasurements(t)
          \/ GmHistogramsLock(t)
          \/ GmHistograms(t)
          \/ GmOverflow(t)
          \/ OverflowBody(t)
          \/ OverflowReturn(t)
          \/ GmReset(t)
          \/ ResetNames(t)
          \/ ResetCap(t)
          \/ ResetOverflow(t)
          \/ ResetReturn(t)
          \/ GmReturn(t)

SpecTags == InitMeasurements /\ [][NextTags]_vars

(***************************************************************************)
(* Properties of the tags of the message                                   *)
(***************************************************************************)
\* the first n characters of x, or x if it has no more than n
First(x, n) == [i \in 1..(IF Len(x) < n THEN Len(x) ELSE n) |-> x[i]]

\* the tags of the stored mapping tags as the message has to hold them
EmittedTags(tags) == {<<First(k, 64), First(tags[k], 255)>> : k \in DOMAIN tags}

\* no tag of the array element d exceeds the limits
WithinLimits(d) == \A p \in d.tags : Len(p[1]) <= 64 /\ Len(p[2]) <= 255

\* C23: the elements appended to the arrays of the measurements and of the
\* histograms are those of the stored entries, each with its tag names cut to
\* their first 64 characters and its tag values cut to their first 255, so that
\* no longer name or value is in the message.
C23_TagsTruncated ==
    [][\A t \in Threads :
          /\ pc[t] = "gm_meas_body" /\ pc'[t] # pc[t] =>
                /\ \A id \in DOMAIN measurements :
                      \E d \in DOMAIN msg'[t].measurements :
                          d.name = measurements[id].Name
                              /\ d.tags = EmittedTags(measurements[id].Tags)
                /\ \A d \in DOMAIN msg'[t].measurements :
                      /\ WithinLimits(d)
                      /\ \E id \in DOMAIN measurements :
                            d.tags = EmittedTags(measurements[id].Tags)
          /\ pc[t] = "gm_hist_body" /\ pc'[t] # pc[t] =>
                /\ \A nm \in DOMAIN histograms :
                      \E d \in DOMAIN msg'[t].histograms :
                          d.tags = EmittedTags(histograms[nm].tags)
                /\ \A d \in DOMAIN msg'[t].histograms :
                      /\ WithinLimits(d)
                      /\ \E nm \in DOMAIN histograms :
                            d.tags = EmittedTags(histograms[nm].tags)]_vars

\* a measurement recorded with the longest tag name and the longest value is in
\* the message with the name cut to 64 and the value cut to 255
C23_Witness ==
    \E t \in Threads :
        /\ pc[t] = "gm_hist"
        /\ \E o \in BagToSet(recorded) :
              /\ Repeat(MaxTagNameLen) \in DOMAIN o.Tags
              /\ o.Tags[Repeat(MaxTagNameLen)] = Repeat(MaxTagValueLen)
              /\ \E d \in DOMAIN msg[t].measurements : <<Repeat(64), Repeat(255)>> \in d.tags

(***************************************************************************)
(* SpecEncoding: as SpecFlush without its history, and the encoding of any *)
(* of the histograms may fail when a message is generated.                 *)
(***************************************************************************)
NextEncoding ==
    \/ \E t \in Writers :
          \/ nSpans < MaxFlushSpans /\ \E s \in FlushSpans : CallProcess(t, s)
          \/ RecordHistogramBody(t)
          \/ ProcessAdmit(t)
          \/ IsWithinLimitBody(t)
          \/ IsWithinLimitReturn(t)
          \/ ProcessNamed(t)
          \/ ProcessNamedMeasurements(t)
          \/ PmPrimary(t)
          \/ PmMethod(t)
          \/ PmStatus(t)
          \/ PmReturn(t)
    \/ \E t \in Periodic :
          \/ StartFlush(t)
          \/ CrNumSent(t)
          \/ CrNumFailed(t)
          \/ CrTotalEvents(t)
          \/ CrNumOverflowed(t)
          \/ CrQueueLargest(t)
          \/ CopyAndResetReturn(t)
          \/ GmMeasurementsLock(t)
          \/ GmMeasurements(t)
          \/ GmHistogramsLock(t)
          \/ \E failed \in SUBSET DOMAIN histograms : GmHistogramsEncoding(t, failed)
          \/ GmOverflow(t)
          \/ OverflowBody(t)
          \/ OverflowReturn(t)
          \/ GmReset(t)
          \/ ResetNames(t)
          \/ ResetCap(t)
          \/ ResetOverflow(t)
          \/ ResetReturn(t)
          \/ GmReturn(t)

SpecEncoding == Init /\ [][NextEncoding]_vars

(***************************************************************************)
(* Properties of the encoding failures                                     *)
(***************************************************************************)
\* the keys "0", "1", ... of an array of n elements
ArrayKeys(n) == [i \in 1..n |-> Itoa(i - 1)]

\* C24: when the histograms are appended to the message and the encoding of some
\* of them fails, the array holds one element for each of the others, under the
\* keys "0", "1", ... without a gap, the measurements appended before are still
\* in the message, and generateMetricsMessage goes on to complete the message.
C24_OnlyFailedOmitted ==
    [][\A t \in Threads :
          pc[t] = "gm_hist_body" /\ pc'[t] # pc[t] =>
              LET kept == DOMAIN histograms \ msg'[t].logged
              IN  /\ msg'[t].logged \subseteq DOMAIN histograms
                  /\ \A nm \in kept :
                        \E d \in DOMAIN msg'[t].histograms :
                            /\ d.value = histograms[nm].hist
                            /\ d.tags = EmittedTags(histograms[nm].tags)
                  /\ BagCardinality(msg'[t].histograms) = Cardinality(kept)
                  /\ msg'[t].keys = ArrayKeys(Cardinality(kept))
                  /\ msg'[t].measurements = msg[t].measurements
                  /\ pc'[t] = "gm_overflow"]_vars

\* a complete message with measurements and one histogram, under the key "0",
\* the encoding of another histogram having failed
C24_Witness ==
    \E t \in Threads :
        /\ pc[t] = "gm_done"
        /\ msg[t].logged # {}
        /\ msg[t].keys = <<Itoa(0)>>
        /\ msg[t].histograms # EmptyBag
        /\ msg[t].measurements # EmptyBag

(***************************************************************************)
(* appendMACAddresses                                                      *)
(***************************************************************************)
Comma == 44

\* the hardware addresses of the interfaces filteredIfaces() returns: at most
\* MaxIfaces interfaces, each with one of three addresses or with none ("")
MaxIfaces == 4
HardwareAddrs == {sEmpty, <<97>>, <<98>>, <<99>>}
IfaceLists == UNION {[1..n -> HardwareAddrs] : n \in 0..MaxIfaces}

\* strings.Split(s, sep) for a separator sep of one byte
RECURSIVE SplitAt(_, _)
SplitAt(s, sep) ==
    IF \A i \in DOMAIN s : s[i] # sep THEN <<s>>
    ELSE LET i == CHOOSE k \in DOMAIN s : s[k] = sep /\ \A j \in 1..(k - 1) : s[j] # sep
         IN  <<SubSeq(s, 1, i - 1)>> \o SplitAt(SubSeq(s, i + 1, Len(s)), sep)

\* strings.TrimSuffix(s, ",")
TrimSuffix(s) == IF s # <<>> /\ s[Len(s)] = Comma THEN SubSeq(s, 1, Len(s) - 1) ELSE s

\* the loop of getMACAddressList: mac + "," is appended for every address that is not ""
RECURSIVE JoinMACs(_)
JoinMACs(ifaces) ==
    IF ifaces = <<>> THEN <<>>
    ELSE (IF Head(ifaces) # sEmpty THEN Head(ifaces) \o <<Comma>> ELSE <<>>)
             \o JoinMACs(Tail(ifaces))

\* getMACAddressList() when it is first called: the value it caches and returns
getMACAddressList(ifaces) == TrimSuffix(JoinMACs(ifaces))

\* the elements the loop of appendMACAddresses appends for the list macs: for every
\* mac that is not "", i := 0 and the element strconv.Itoa(i) -> mac (the i++ that
\* follows changes a variable that is not read again)
RECURSIVE MACElements(_)
MACElements(macs) ==
    IF macs = <<>> THEN <<>>
    ELSE (IF Head(macs) = sEmpty THEN <<>> ELSE <<<<Itoa(0), Head(macs)>>>>)
             \o MACElements(Tail(macs))

\* thread t calls appendMACAddresses(bbuf) on a host whose interfaces have the
\* addresses ifaces; name[t] holds the list getMACAddressList() returns
CallAppendMACAddresses(t, ifaces) ==
    /\ pc[t] = "idle"
    /\ Goto(t, "mac_ret")
    /\ op' = [op EXCEPT ![t] = "appendMACAddresses"]
    /\ name' = [name EXCEPT ![t] = getMACAddressList(ifaces)]
    /\ msg' = [msg EXCEPT ![t].MACAddresses =
                              MACElements(SplitAt(getMACAddressList(ifaces), Comma))]
    /\ UNCHANGED <<tmVars, cap, ret, stagedCap, tableVars, procVars, nSpans>>
    /\ UNCHANGED <<ghostVars, aggVars, queueVars>>

\* the buffer is read and dropped
AppendMACAddressesReturn(t) ==
    /\ pc[t] = "mac_ret"
    /\ Goto(t, "idle")
    /\ op' = [op EXCEPT ![t] = "idle"]
    /\ name' = [name EXCEPT ![t] = sEmpty]
    /\ msg' = [msg EXCEPT ![t] = EmptyMessage]
    /\ UNCHANGED <<tmVars, cap, ret, stagedCap, tableVars, procVars, nSpans>>
    /\ UNCHANGED <<ghostVars, aggVars, queueVars>>

(***************************************************************************)
(* SpecMAC: appendMACAddresses is called on hosts with any interfaces.     *)
(***************************************************************************)
NextMAC ==
    \E t \in Writers :
        \/ \E ifaces \in IfaceLists : CallAppendMACAddresses(t, ifaces)
        \/ AppendMACAddressesReturn(t)

SpecMAC == Init /\ [][NextMAC]_vars

(***************************************************************************)
(* Properties of appendMACAddresses                                        *)
(***************************************************************************)
\* the MAC addresses of the comma separated list s that are not ""
RECURSIVE ListedMACs(_)
ListedMACs(s) ==
    IF s = <<>> THEN <<>>
    ELSE LET n == IF \E i \in DOMAIN s : s[i] = Comma
                  THEN (CHOOSE i \in DOMAIN s :
                            s[i] = Comma /\ \A j \in 1..(i - 1) : s[j] # Comma) - 1
                  ELSE Len(s)
         IN  (IF n = 0 THEN <<>> ELSE <<SubSeq(s, 1, n)>>)
                 \o ListedMACs(SubSeq(s, n + 2, Len(s)))

\* C26: the MACAddresses array has one element for each MAC address of the list
\* that is not "", in the order of the list, under the keys "0", "1", "2", ...
C26_ConsecutiveIndices ==
    \A t \in Threads :
        pc[t] = "mac_ret" =>
            LET macs == ListedMACs(name[t])
            IN  msg[t].MACAddresses = [i \in 1..Len(macs) |-> <<Itoa(i - 1), macs[i]>>]

\* the values of the array are the MAC addresses of the list that are not "", in
\* the order of the list (this holds)
MACValuesInListOrder ==
    \A t \in Threads :
        pc[t] = "mac_ret" =>
            [i \in DOMAIN msg[t].MACAddresses |-> msg[t].MACAddresses[i][2]]
                = ListedMACs(name[t])

(***************************************************************************)
(* SpecIdentity: recordMeasurement is called with tag maps in which one    *)
(* tag name is the beginning of another one.                               *)
(***************************************************************************)
\* "t"
sT == <<116>>

\* the tag maps with the names "t" and "t1", or one of them
PrefixTagMaps ==
    {k :> v : k \in {sT, sT1}, v \in {sTag1, sTag2}}
        \cup {(sT :> v) @@ (sT1 :> w) : v, w \in {sTag1, sTag2}}

NextIdentity ==
    \E t \in Recorders :
        \E tags \in PrefixTagMaps, d \in Durations, rv \in BOOLEAN :
            DirectRecordMeasurement(t, sName1, tags, d, rv)

SpecIdentity == Init /\ [][NextIdentity]_vars

(***************************************************************************)
(* Properties of the identity of a measurement                             *)
(***************************************************************************)
\* name + ":" + value for the tag k of tags
JoinedPair(tags, k) == k \o <<58>> \o tags[k]

NextAggregator ==
    \/ \E t \in Pushers :
          \/ \E record \in AggRecords : CallPushMetricsRecord(t, record)
          \/ PushMetricsRecordSelect(t)
          \/ PushMetricsRecordReturn(t)
    \/ \E t \in Periodic :
          \/ CallFlushBSON(t)
          \/ ProcessMetricsRawReq(t)
          \/ PushMetricsRaw(t)
          \/ FlushBSONReceiveClosed(t)
          \/ FlushBSONReturn(t)
    \/ ProcessMetricsRecord
    \/ PushMetricsRawClosed
    \/ ProcessMetricsExitClosed
    \/ \E t \in Notifiers :
          \/ ProcessMetricsExit(t)
          \/ CloseExit(t)

SpecAggregator == Init /\ [][NextAggregator]_vars

(***************************************************************************)
(* Properties of the metricsAggregator                                     *)
(***************************************************************************)
\* C25: a PushMetricsRecord call can always take its step, whatever the goroutine
\* is doing; the step returns true and adds the record at the end of the channel
\* if the channel holds fewer than 100 records, and returns false and leaves the
\* channel as it is if it holds 100.
C25_PushNeverBlocks ==
    /\ [](\A t \in Threads :
             pc[t] = "pmr_select" /\ Running => ENABLED PushMetricsRecordSelect(t))
    /\ [][\A t \in Threads :
             pc[t] = "pmr_select" /\ pc'[t] # pc[t] =>
                 /\ pc'[t] = "pmr_ret"
                 /\ ret'[t] = (Len(aggregator.records) < 100)
                 /\ ret'[t] => aggregator'.records = aggregator.records \o <<span[t]>>
                 /\ ~ret'[t] => aggregator'.records = aggregator.records
                 /\ Len(aggregator'.records) <= 100]_vars

\* a call has returned false, and the channel holds 100 records
C25_Witness ==
    \E t \in Threads :
        pc[t] = "pmr_ret" /\ ~ret[t] /\ Len(aggregator.records) = 100


\* no goroutine panics
ProcessMetricsNeverPanics == processMetrics.pc # "panic"

\* C27: once the goroutine has received an exit notification and closed the raw
\* channel it takes no further step: it handles no record and no flush request,
\* and neither closes the raw channel again nor sends on it.
C27_TerminatesAfterExit ==
    [][aggregator.raw = "closed" =>
           /\ processMetrics' = processMetrics
           /\ aggregator'.metrics = aggregator.metrics
           /\ aggregator'.transNames = aggregator.transNames
           /\ Len(aggregator'.records) >= Len(aggregator.records)]_vars

\* C30: two measurements of the aggregator with equal tags are one entry, that is
\* the observations of one series have one id.
C30_OneEntryPerSeries ==
    \A i, j \in DOMAIN aggregator.metrics.measurements :
        aggregator.metrics.measurements[i].tags = aggregator.metrics.measurements[j].tags
            => i = j


(***************************************************************************)
(* SpecFlushBSON: the running aggregator: records are pushed without end   *)
(* while two threads call FlushBSON; the goroutine is not notified to      *)
(* exit.  The select of ProcessMetrics chooses at random among the cases   *)
(* that are ready, so a request that is ready again and again is           *)
(* eventually received (strong fairness); a goroutine that can send to a   *)
(* waiting receiver does so (weak fairness).                               *)
(***************************************************************************)
NextFlushBSON ==
    \/ \E t \in Pushers, record \in AggRecords : PushMetricsRecord(t, record)
    \/ \E t \in Flushers :
          \/ CallFlushBSON(t)
          \/ ProcessMetricsRawReq(t)
          \/ PushMetricsRaw(t)
          \/ FlushBSONReturn(t)
    \/ ProcessMetricsRecord

SpecFlushBSON ==
    /\ Init
    /\ [][NextFlushBSON]_vars
    /\ \A t \in Flushers : SF_vars(ProcessMetricsRawReq(t)) /\ WF_vars(PushMetricsRaw(t))

\* C28: every FlushBSON call that waits to send its request eventually holds a
\* reply, also when records never stop arriving; a call receives a reply only
\* while the goroutine is serving its own request, the reply is a value the
\* goroutine sent, and the goroutine sends one reply for a request and then
\* returns to its select.
C28_FlushReturns ==
    /\ \A t \in Flushers : (pc[t] = "fb_send") ~> (pc[t] = "fb_ret")
    /\ [][\A t \in Threads :
             /\ pc[t] = "fb_recv" /\ pc'[t] # pc[t] =>
                   /\ processMetrics.pc = "push"
                   /\ processMetrics.served = t
                   /\ pc'[t] = "fb_ret"
                   /\ ret'[t]
                   /\ processMetrics'.pc = "select"
             /\ pc[t] = "fb_send" /\ pc'[t] # pc[t] =>
                   /\ processMetrics.pc = "select"
                   /\ processMetrics'.pc = "push"
                   /\ pc'[t] = "fb_recv"]_vars
    /\ [][processMetrics.pc = "push" /\ processMetrics'.pc # "push" =>
             \E t \in Flushers : pc[t] = "fb_recv" /\ pc'[t] = "fb_ret"]_vars

\* a FlushBSON call holds its reply while records wait in the channel and the
\* other FlushBSON call waits to send its request
C28_Witness ==
    \E t, u \in Flushers :
        /\ pc[t] = "fb_ret"
        /\ ret[t]
        /\ pc[u] = "fb_send"
        /\ aggregator.records # <<>>


\* C39: the result of GetTransactionFromPath is never the empty string, has at
\* most 3 parts delimited by "/" (at most two "/"), and is mapped to itself by
\* GetTransactionFromPath.
C39_Idempotent ==
    \A t \in Threads :
        pc[t] = "gtp_ret" =>
            /\ txn[t] # <<>>
            /\ Cardinality({i \in DOMAIN txn[t] : txn[t][i] = 47}) <= 2
            /\ GetTransactionFromPath(txn[t]) = txn[t]

\* the result for a path of more than three parts: shorter than the path, and
\* mapped to itself
C39_Witness ==
    \E t \in Threads :
        /\ pc[t] = "gtp_ret"
        /\ Cardinality({i \in DOMAIN name[t] : name[t][i] = 47}) > 2
        /\ Len(txn[t]) < Len(name[t])
        /\ GetTransactionFromPath(txn[t]) = txn[t]


\* C36: every entry of the histogram table holds at least one recorded sample: a
\* recordHistogram whose Record fails leaves no new entry without a sample.
C36_NoEmptyHistogram ==
    histLock = NoThread =>
        \A n \in DOMAIN histograms : histograms[n].hist >= 1


(***************************************************************************)
(* SpecSeparators: recordMeasurement is called with tag maps whose values  *)
(* contain the separators ":" and "&" of the identity string; the history  *)
(* of the calls is kept.                                                   *)
(***************************************************************************)
\* the tag maps {"t1": "tag1&t:tag1"}, {"t1": "tag1", "t": "tag1"} and {"t1": "tag1"}
SeparatorTagMaps ==
    {(sT1 :> (sTag1 \o <<Amp>> \o sT \o <<Colon>> \o sTag1)),
     (sT1 :> sTag1) @@ (sT :> sTag1),
     (sT1 :> sTag1)}

NextSeparators ==
    \E t \in Recorders :
        \E nm \in MetricNames, tags \in SeparatorTagMaps, d \in Durations, rv \in BOOLEAN :
            DirectRecordMeasurement(t, nm, tags, d, rv)

SpecSeparators == InitMeasurements /\ [][NextSeparators]_vars

\* C34: the identity of a measurement is injective: an entry of the table
\* aggregates the observations of its own metric name, reportSum flag and tag map
\* and no other, also when tag values contain ":" and "&".
C34_IdentityInjective ==
    \A id \in DOMAIN measurements :
        measurements[id].Count = CountOf(ObservationsOf(measurements[id]))


(***************************************************************************)
(* SpecCycles: a writer processes spans while the periodic thread          *)
(* generates metrics messages, on a registry of transaction names with a   *)
(* capacity of 0 or 1 (as SetCap and the Reset of a cycle leave it); the   *)
(* spans are named t1, "unknown" or "other", with or without an error; the *)
(* history of the messages is kept.                                        *)
(***************************************************************************)
CycleCaps == {0, 1}
CycleSpans ==
    {s \in SpanInputs : InRange(s) /\ s.Transaction # sEmpty}
        \cup {HTTPSpanMessage(OtherTransactionName, s.Duration, o) :
                 s \in {x \in SpanInputs : InRange(x)}, o \in Outcomes}

InitCycles ==
    /\ \E c \in CycleCaps : NewTransMap(c) /\ stagedCap = c
    /\ ThreadsIdle
    /\ TablesEmpty
    /\ History({"emitted"})

NextCycles ==
    \/ \E t \in Writers :
          \/ \E s \in CycleSpans : StartProcess(t, s)
          \/ RecordHistogramBody(t)
          \/ ProcessAdmit(t)
          \/ ProcessUnknown(t)
          \/ IsWithinLimitBody(t)
          \/ IsWithinLimitReturn(t)
          \/ ProcessNamed(t)
          \/ ProcessNamedMeasurements(t)
          \/ ProcessOther(t)
          \/ PmPrimary(t)
          \/ PmMethod(t)
          \/ PmStatus(t)
          \/ PmError(t)
          \/ PmReturn(t)
    \/ \E t \in Periodic :
          \/ StartFlush(t)
          \/ CrNumSent(t)
          \/ CrNumFailed(t)
          \/ CrTotalEvents(t)
          \/ CrNumOverflowed(t)
          \/ CrQueueLargest(t)
          \/ CopyAndResetReturn(t)
          \/ GmMeasurementsLock(t)
          \/ GmMeasurements(t)
          \/ GmHistogramsLock(t)
          \/ GmHistograms(t)
          \/ GmOverflow(t)
          \/ OverflowBody(t)
          \/ OverflowReturn(t)
          \/ GmReset(t)
          \/ ResetNames(t)
          \/ ResetCap(t)
          \/ ResetOverflow(t)
          \/ ResetReturn(t)
          \/ GmReturn(t)

SpecCycles == InitCycles /\ [][NextCycles]_vars

(***************************************************************************)
(* Properties of the series of a span and of the cycles of the registry    *)
(***************************************************************************)
\* the values of the TransactionName tag in the elements of the array b
TransactionNamesIn(b) ==
    {p[2] : p \in {q \in UNION {e.tags : e \in BagToSet(b)} : q[1] = sTransactionName}}

\* the elements of the array b tagged TransactionName=n and with a tag named key,
\* or with no other tag if key is ""
SeriesOf(b, n, key) ==
    {e \in BagToSet(b) :
        /\ <<sTransactionName, n>> \in e.tags
        /\ IF key = sEmpty THEN Cardinality(e.tags) = 1
           ELSE \E p \in e.tags : p[1] = key}

\* in the array b, for every transaction name, the counts of the HttpMethod series
\* and those of the HttpStatus series sum to the count of the primary series, and
\* the count of the Errors series is not larger
FanOutBalanced(b) ==
    \A n \in TransactionNamesIn(b) :
        LET primary == ElementCounts(b, SeriesOf(b, n, sEmpty))
        IN  /\ ElementCounts(b, SeriesOf(b, n, sHttpMethod)) = primary
            /\ ElementCounts(b, SeriesOf(b, n, sHttpStatus)) = primary
            /\ ElementCounts(b, SeriesOf(b, n, sErrors)) <= primary

\* C33: the series of a span are recorded atomically with respect to the drain:
\* in the table of the measurements whenever its lock is free, and in every
\* message, the counts of the HttpMethod series and of the HttpStatus series of a
\* transaction name each sum to the count of its primary series, and the count
\* of its Errors series is not larger.
C33_FanOutAtomic ==
    /\ measLock = NoThread => FanOutBalanced(MeasurementsArray(measurements))
    /\ \A t \in Threads : FanOutBalanced(msg[t].measurements)

\* generateMetricsMessage waits for the lock of the measurements while a span with
\* an error has recorded its primary and HttpMethod series and not the others
C33_Witness ==
    \E t \in Periodic, w \in Writers :
        /\ pc[t] = "gm_meas"
        /\ pc[w] = "pm_status"
        /\ measLock = w
        /\ span[w].HasError
        /\ ~FanOutBalanced(MeasurementsArray(measurements))


\* the sum of the counts of the primary series (the only tag is TransactionName)
\* in the array b
PrimaryCount(b) ==
    ElementCounts(b, {e \in BagToSet(b) :
                         /\ Cardinality(e.tags) = 1
                         /\ \E p \in e.tags : p[1] = sTransactionName})

\* the number of spans whose process() has returned
Completed == nSpans - Cardinality({t \in Threads : op[t] = "process"})

\* the number of spans in progress whose primary series is recorded
PastPrimary ==
    Cardinality({t \in Threads :
                    op[t] = "process" /\ pc[t] \in {"pm_method", "pm_status", "pm_error", "pm_ret"}})

\* C37 (as stated): the counts of the primary series of all transaction names, in
\* all the messages and in the table, sum to the number of spans whose
\* processing has completed.
C37_CountedOnce ==
    PrimaryCount(AllMeasurements) + PrimaryCount(MeasurementsArray(measurements)) = Completed

\* C37 (amended): the counts of the primary series of all transaction names, in
\* all the messages and in the table, sum to the number of spans whose
\* processing has completed plus the spans in progress that have recorded their
\* primary series; whenever the lock of the measurements is free, that is the
\* number of spans whose processing has completed.
C37_CountedOnceWhenUnlocked ==
    LET total == PrimaryCount(AllMeasurements) + PrimaryCount(MeasurementsArray(measurements))
    IN  /\ total = Completed + PastPrimary
        /\ measLock = NoThread => total = Completed

\* every span is processed, one of them was counted as other and is in a message,
\* and the lock of the measurements is free
C37_Witness ==
    /\ measLock = NoThread
    /\ Completed = MaxSpans
    /\ PrimaryCount(emitted.measurements) >= 1
    /\ OtherTransactionName \in TransactionNamesIn(emitted.measurements)

\* C35: the series tagged TransactionName=other count rejected spans only, and no
\* histogram named "other" exists.
C35_OtherOnlyRejected ==
    /\ OtherTransactionName \notin DOMAIN histograms
    /\ \A t \in Threads :
          (op[t] = "process" /\ pc[t] \in {"pm_primary", "pm_method", "pm_status", "pm_error"}
               /\ txn[t] = OtherTransactionName) => ~ret[t]

\* C31: the overflow flag of the registry is never cleared without being reported:
\* when Reset sets it to false, the message being generated holds
\* TransactionNameOverflow = true.
C31_OverflowNeverLost ==
    [][(overflow /\ ~overflow') => \E t \in Threads : msg[t].TransactionNameOverflow]_vars


(***************************************************************************)
(* SpecCapacity: as SpecCycles, with a registry of capacity 1 and up to    *)
(* MaxFlushSpans successful spans named t1 or t2.                          *)
(***************************************************************************)
CapacitySpans ==
    {HTTPSpanMessage(tr, s.Duration, s) :
        tr \in {sT1, sT2}, s \in {x \in SpanInputs : InRange(x) /\ ~x.HasError}}

InitCapacity ==
    /\ \E c \in CycleCaps \ {0} : NewTransMap(c) /\ stagedCap = c
    /\ ThreadsIdle
    /\ TablesEmpty
    /\ History({})

NextCapacity ==
    \/ \E t \in Writers :
          \/ nSpans < MaxFlushSpans /\ \E s \in CapacitySpans : CallProcess(t, s)
          \/ RecordHistogramBody(t)
          \/ ProcessAdmit(t)
          \/ IsWithinLimitBody(t)
          \/ IsWithinLimitReturn(t)
          \/ ProcessNamed(t)
          \/ ProcessNamedMeasurements(t)
          \/ ProcessOther(t)
          \/ PmPrimary(t)
          \/ PmMethod(t)
          \/ PmStatus(t)
          \/ PmReturn(t)
    \/ \E t \in Periodic :
          \/ StartFlush(t)
          \/ CrNumSent(t)
          \/ CrNumFailed(t)
          \/ CrTotalEvents(t)
          \/ CrNumOverflowed(t)
          \/ CrQueueLargest(t)
          \/ CopyAndResetReturn(t)
          \/ GmMeasurementsLock(t)
          \/ GmMeasurements(t)
          \/ GmHistogramsLock(t)
          \/ GmHistograms(t)
          \/ GmOverflow(t)
          \/ OverflowBody(t)
          \/ OverflowReturn(t)
          \/ GmReset(t)
          \/ ResetNames(t)
          \/ ResetCap(t)
          \/ ResetOverflow(t)
          \/ ResetReturn(t)
          \/ GmReturn(t)

SpecCapacity == InitCapacity /\ [][NextCapacity]_vars

\* the number of elements of the array b that have a TransactionName tag
TaggedElements(b) ==
    LET es == {e \in BagToSet(b) : \E p \in e.tags : p[1] = sTransactionName}
        RECURSIVE Sum(_)
        Sum(s) == IF s = {} THEN 0
                  ELSE LET e == CHOOSE x \in s : TRUE
                       IN  CopiesIn(e, b) + Sum(s \ {e})
    IN  Sum(es)

\* C32: in every message the histograms with a TransactionName tag are at most as
\* many as the capacity of the registry in that cycle, and the measurements have
\* at most capacity + 2 distinct values of TransactionName.
C32_MessageWithinCapacity ==
    \A t \in Threads :
        /\ TaggedElements(msg[t].histograms) <= currCap
        /\ Cardinality(TransactionNamesIn(msg[t].measurements)) <= currCap + 2


(***************************************************************************)
(* SpecFair: two writers process spans while the periodic thread generates *)
(* metrics messages; Record panics for the spans of one of the writers.    *)
(* Every goroutine that can run does run, and sync.Mutex hands a lock that *)
(* is released again and again to a goroutine that waits for it (its       *)
(* starvation mode), so a step of a call in progress that is enabled again *)
(* and again is taken. Whether a span or a message is started is free.     *)
(***************************************************************************)
\* the writers whose spans have a duration above the ceiling of the histograms
OutOfRangeWriters == {"w1"}
FairSpans(t) == {s \in FlushSpans : InRange(s) <=> t \notin OutOfRangeWriters}

\* a step of process() after its start, other than a call of recordMeasurement
ProcessStep(t) ==
    \/ RecordHistogramBody(t)
    \/ ProcessAdmit(t)
    \/ IsWithinLimitBody(t)
    \/ IsWithinLimitReturn(t)
    \/ ProcessNamed(t)
    \/ ProcessNamedMeasurements(t)
    \/ PmReturn(t)

\* the labels of the calls of recordMeasurement in processMeasurements: a thread
\* at one of them holds the lock of the measurements and waits for nothing
RecordingLabels == {"pm_primary", "pm_method", "pm_status"}

\* a step of generateMetricsMessage after its start
FlushStep(t) ==
    \/ CrNumSent(t)
    \/ CrNumFailed(t)
    \/ CrTotalEvents(t)
    \/ CrNumOverflowed(t)
    \/ CrQueueLargest(t)
    \/ CopyAndResetReturn(t)
    \/ GmMeasurementsLock(t)
    \/ GmMeasurements(t)
    \/ GmHistogramsLock(t)
    \/ GmHistograms(t)
    \/ GmOverflow(t)
    \/ OverflowBody(t)
    \/ OverflowReturn(t)
    \/ GmReset(t)
    \/ ResetNames(t)
    \/ ResetCap(t)
    \/ ResetOverflow(t)
    \/ ResetReturn(t)
    \/ GmReturn(t)

NextFair ==
    \/ \E t \in Recorders :
          \/ nSpans < MaxFlushSpans /\ \E s \in FairSpans(t) : CallProcess(t, s)
          \/ RecordHistogramBody(t)
          \/ ProcessAdmit(t)
          \/ IsWithinLimitBody(t)
          \/ IsWithinLimitReturn(t)
          \/ ProcessNamed(t)
          \/ ProcessNamedMeasurements(t)
          \/ PmPrimary(t)
          \/ PmMethod(t)
          \/ PmStatus(t)
          \/ PmReturn(t)
    \/ \E t \in Periodic :
          \/ StartFlush(t)
          \/ CrNumSent(t)
          \/ CrNumFailed(t)
          \/ CrTotalEvents(t)
          \/ CrNumOverflowed(t)
          \/ CrQueueLargest(t)
          \/ CopyAndResetReturn(t)
          \/ GmMeasurementsLock(t)
          \/ GmMeasurements(t)
          \/ GmHistogramsLock(t)
          \/ GmHistograms(t)
          \/ GmOverflow(t)
          \/ OverflowBody(t)
          \/ OverflowReturn(t)
          \/ GmReset(t)
          \/ ResetNames(t)
          \/ ResetCap(t)
          \/ ResetOverflow(t)
          \/ ResetReturn(t)
          \/ GmReturn(t)

\* strong fairness of the steps that may wait for a lock (and of the steps between
\* them); for the calls of recordMeasurement, which are enabled whenever a thread
\* is at their label and are the only steps that leave it, weak fairness is that
\* the thread is not at such a label forever
SpecFair ==
    /\ Init
    /\ [][NextFair]_vars
    /\ \A t \in Recorders :
          /\ SF_vars(ProcessStep(t))
          /\ []<>(pc[t] \notin RecordingLabels)
    /\ \A t \in Periodic : SF_vars(FlushStep(t))

\* C38: every process() and every generateMetricsMessage that is called returns
\* (no thread is inside a call forever), and the three locks are free whenever no
\* call is in progress: each lock is released on every path, also when Record
\* panics.
C38_CallsComplete ==
    /\ \A t \in Recorders \cup Periodic : []<>(pc[t] = "idle")
    /\ []((\A t \in Threads : pc[t] = "idle")
             => (histLock = NoThread /\ measLock = NoThread /\ mutex = NoThread))

\* a writer whose Record is about to panic holds the lock of the histograms while
\* the other writer and generateMetricsMessage wait for it
C38_Witness ==
    \E t, w \in Recorders, p \in Periodic :
        /\ t # w
        /\ pc[t] \in {"h0_body", "h1_body"}
        /\ ~InRange(span[t])
        /\ pc[w] = "p_branch"
        /\ pc[p] = "gm_hist"

=============================================================================
